---- MODULE Spec2Model ----
(***************************************************************************)
(* Multi-model fan-out / judge orchestration of the ETL migration agent:   *)
(* the single-model task runners of CSVComparisonAgentService and          *)
(* ReorderService, the resource release of BaseAgentService, the fan-out   *)
(* orchestrators and the two judges.                                       *)
(*                                                                         *)
(* Text is modelled as a sequence of tokens.  Every literal the code       *)
(* tests for ("Error:", "Run failed:", "TASK COMPLETED") is a token of its *)
(* own, so str.startswith and the `in` test are decided on tokens.         *)
(***************************************************************************)
EXTENDS Integers, Sequences, FiniteSets, TLC

VARIABLES
    rc,                 \* the context of the runner execution in progress (step level)
    service,            \* which service the execution or fan-out belongs to
    model_deployments,  \* the configured, ordered list of model names
    fo_pc,              \* position of the fan-out orchestrator
    results,            \* what asyncio.gather has collected, per configured position
    model_outputs,      \* the aggregate success mapping (an insertion-ordered dict)
    judge,              \* the judge's bookkeeping: calls, prompt candidates, response
    ret,                \* what the orchestrator handed to its caller
    pool,               \* the service's executor and the invocations using it
    execs,              \* two runner executions side by side, with their contexts
    server,             \* the LegacyEtlMCPServer: its handles and where initialize is
    tool,               \* the CodeGenerationTool: its cache and its call in progress
    disk                \* the reorder target directory: its files and who wrote them

vars == <<rc, service, model_deployments, fo_pc, results, model_outputs, judge, ret, pool,
          execs, server, tool, disk>>

(***************************************************************************)
(* Bounds of the model.                                                    *)
(***************************************************************************)
MaxModels == 3
MaxParts == 2
MaxRespLen == 2

(***************************************************************************)
(* Program constants.                                                      *)
(***************************************************************************)
MAX_ATTEMPTS == 3
TASK_COMPLETION_MARKER == "TASK COMPLETED"
ERROR_PREFIX == "Error:"

Services == {"comparison", "reorder"}

\* The names a configuration may list, in the order of the default configuration.
ModelNames ==
    << <<"gpt-4">>, <<"gpt-4", ".", "1">>, <<"gpt-4o">>, <<"gpt-4o-dz">>, <<"o3">> >>

Configs == { SubSeq(ModelNames, 1, n) : n \in 1..MaxModels }

(***************************************************************************)
(* Text helpers.                                                           *)
(***************************************************************************)
\* str.startswith(prefix), on tokens
startswith(s, prefix) == Len(s) > 0 /\ s[1] = prefix

\* `needle in text`, on tokens
contains(s, needle) == \E i \in 1..Len(s) : s[i] = needle

\* model_name.replace('.', to)
replace_dot(name, to) == [i \in 1..Len(name) |-> IF name[i] = "." THEN to ELSE name[i]]

(***************************************************************************)
(* Python dict: insertion ordered, one entry per key.  A sequence of       *)
(* <<key, value>> pairs.                                                   *)
(***************************************************************************)
dict_keys(d) == [i \in 1..Len(d) |-> d[i][1]]
dict_values(d) == [i \in 1..Len(d) |-> d[i][2]]
dict_has(d, k) == \E i \in 1..Len(d) : d[i][1] = k
dict_get(d, k) == d[CHOOSE i \in 1..Len(d) : d[i][1] = k][2]
dict_set(d, k, v) ==
    IF dict_has(d, k)
    THEN [i \in 1..Len(d) |-> IF d[i][1] = k THEN <<k, v>> ELSE d[i]]
    ELSE Append(d, <<k, v>>)

(***************************************************************************)
(* Remote identifiers.  None is the empty tuple (falsy, like Python None). *)
(***************************************************************************)
None == <<>>
FileId(idx, k) == <<"file", idx, k>>
AgentId(idx) == <<"agent", idx>>
ThreadId(idx) == <<"thread", idx>>

\* Agent messages returned by get_last_message_text_by_role: no message at
\* all, or a message whose text holds the tokens of `value`.
NoMessage == [present |-> FALSE, value |-> <<>>]
AgentMessages ==
    { NoMessage,
      [present |-> TRUE, value |-> <<"still working">>],
      [present |-> TRUE, value |-> <<"all rows matched. ", TASK_COMPLETION_MARKER>>] }

(***************************************************************************)
(* What a call to a collaborator (remote agent service, file system) does: *)
(* it raises, or it returns.  <<"raise">> or <<"raise", n>> (n steps of    *)
(* the call were done before it raised), <<"ok">>, <<"status", s>>,        *)
(* <<"msg", m>>, <<"parts", n>>.                                           *)
(***************************************************************************)
raised(ev) == ev[1] = "raise"

(***************************************************************************)
(* The context of one runner execution: AgentContext / ReorderContext,     *)
(* together with the position of the execution and a record of the remote  *)
(* calls it has made (runs, msgs, nudges, extracts, deleted; del_failed:    *)
(* the positions in deleted of the deletions that failed).  agent_files:    *)
(* the file ids given to the agent's code interpreter tool.  propagates:    *)
(* an exception is on its way out of the runner function.                  *)
(***************************************************************************)
NewContext(svc, idx, name) ==
    [ svc |-> svc, model_name |-> name, model_index |-> idx,
      pc |-> "prepare",
      tmp_files |-> <<>>, copied |-> <<>>, removed |-> <<>>,
      file_ids |-> <<>>, agent_id |-> None, agent_files |-> <<>>, thread_id |-> None,
      attempt |-> 0, runs |-> <<>>, msgs |-> <<>>, nudges |-> 0, extracts |-> 0, parts |-> 0,
      deleted |-> <<>>, del_failed |-> {}, del_i |-> 1,
      proto |-> "NOT_STARTED", raised |-> FALSE, propagates |-> FALSE, result |-> <<>> ]

\* The context before any execution was started.
IdleContext == [NewContext("comparison", 1, ModelNames[1]) EXCEPT !.pc = "idle"]

\* _prepare_comparison_files / _prepare_reorder_files: the two temp paths
tmp_paths(c) ==
    IF c.svc = "comparison"
    THEN << <<"/tmp/ported_python_output_">> \o replace_dot(c.model_name, "_") \o <<".csv">>,
            <<"/tmp/correct_legacy_etl_output_">> \o replace_dot(c.model_name, "_") \o <<".csv">> >>
    ELSE << <<"/tmp/source_data_", ToString(c.model_index), ".csv">>,
            <<"/tmp/legacy_etl_output_", ToString(c.model_index), ".csv">> >>

\* str(e) of an exception raised by a collaborator (one representative text).
ExcText == "request failed"

\* The text the runner returns when its except clause caught an exception
\* whose message is e.
exception_text(c, e) ==
    IF c.svc = "comparison"
    THEN <<"An error occurred during agent processing with model ">>
             \o c.model_name \o <<": ", e>>
    ELSE <<ERROR_PREFIX, " ", e>>

\* Variant: the except clause returns without a finally clause releasing.
except_handler_no_finally(c, e) ==
    [c EXCEPT !.result = exception_text(c, e), !.raised = TRUE, !.pc = "returned"]

\* Variant: the except clause logs the exception and raises it again.
except_handler_reraise(c, e) ==
    [c EXCEPT !.raised = TRUE, !.propagates = TRUE, !.pc = "cleanup_thread"]

\* except Exception as e: return <text>; finally: release
except_handler(c, e) ==
    [c EXCEPT !.result = exception_text(c, e), !.raised = TRUE, !.pc = "cleanup_thread"]

\* return <text> from the try body; finally: release
return_value(c, text) == [c EXCEPT !.result = text, !.pc = "cleanup_thread"]

\* copy_files_to_temp: n of the two copies were made before one failed (n = 2:
\* none failed); context.tmp_files is assigned only when the call returns.
prepare_files(c, ev) ==
    LET n == IF raised(ev) THEN ev[2] ELSE 2
    IN
    IF n = 2
    THEN [c EXCEPT !.tmp_files = tmp_paths(c), !.copied = tmp_paths(c), !.pc = "upload"]
    ELSE except_handler([c EXCEPT !.copied = SubSeq(tmp_paths(c), 1, n)], ExcText)

\* Variant: the loop is left after its first upload.
upload_files_first_only(c, ev) ==
    IF raised(ev)
    THEN except_handler(c, ExcText)
    ELSE [c EXCEPT !.file_ids = Append(c.file_ids, FileId(c.model_index, Len(c.file_ids) + 1)),
                   !.pc = "create_agent"]

\* one iteration of the upload loop
upload_files_to_agent(c, ev) ==
    IF raised(ev)
    THEN except_handler(c, ExcText)
    ELSE LET ids == Append(c.file_ids, FileId(c.model_index, Len(c.file_ids) + 1))
         IN  [c EXCEPT !.file_ids = ids,
                       !.pc = IF Len(ids) = Len(c.tmp_files) THEN "create_agent" ELSE "upload"]

\* CodeInterpreterTool(file_ids=context.file_ids) and
\* agents_client.create_agent(...)
create_agent(c, ev) ==
    IF raised(ev)
    THEN except_handler(c, ExcText)
    ELSE [c EXCEPT !.agent_id = AgentId(c.model_index), !.agent_files = c.file_ids,
                   !.pc = "create_thread"]

\* agents_client.threads.create()
create_thread(c, ev) ==
    IF raised(ev)
    THEN except_handler(c, ExcText)
    ELSE [c EXCEPT !.thread_id = ThreadId(c.model_index), !.pc = "post_task"]

\* messages.create(role="user", content=task): the first user turn
post_task(c, ev) ==
    IF raised(ev)
    THEN except_handler(c, ExcText)
    ELSE [c EXCEPT !.attempt = 1, !.proto = "AWAITING_RUN", !.pc = "run"]

run_failed_text(c) ==
    IF c.svc = "comparison"
    THEN <<"Run failed:", " ", "server_error">>
    ELSE <<ERROR_PREFIX, " ", "Run failed:", " ", "server_error">>

\* Variant: the reorder runner follows the completion protocol as well.
create_and_process_with_check(c, ev) ==
    LET status == IF raised(ev) THEN "raised" ELSE ev[2]
        d == [c EXCEPT !.runs = Append(c.runs, status)]
    IN  IF raised(ev)
        THEN except_handler(d, ExcText)
        ELSE IF status = "failed"
        THEN return_value([d EXCEPT !.proto = "RUN_FAILED"], run_failed_text(c))
        ELSE [d EXCEPT !.proto = "CHECKING_COMPLETION", !.pc = "get_message"]

\* Variant: the status of the run is not tested.
create_and_process_unchecked(c, ev) ==
    LET status == IF raised(ev) THEN "raised" ELSE ev[2]
        d == [c EXCEPT !.runs = Append(c.runs, status)]
    IN  IF raised(ev)
        THEN except_handler(d, ExcText)
        ELSE IF c.svc = "comparison"
        THEN [d EXCEPT !.proto = "CHECKING_COMPLETION", !.pc = "get_message"]
        ELSE [d EXCEPT !.proto = "COMPLETED", !.pc = "extract"]

\* runs.create_and_process(...) and the test of run.status
create_and_process(c, ev) ==
    LET status == IF raised(ev) THEN "raised" ELSE ev[2]
        d == [c EXCEPT !.runs = Append(c.runs, status)]
    IN  IF raised(ev)
        THEN except_handler(d, ExcText)
        ELSE IF status = "failed"
        THEN return_value([d EXCEPT !.proto = "RUN_FAILED"], run_failed_text(c))
        ELSE IF c.svc = "comparison"
        THEN [d EXCEPT !.proto = "CHECKING_COMPLETION", !.pc = "get_message"]
        ELSE [d EXCEPT !.proto = "COMPLETED", !.pc = "extract"]

\* Variant: any agent message counts as completion.
is_task_completed_any(message) == message.present

\* _is_task_completed
is_task_completed(message) ==
    message.present /\ contains(message.value, TASK_COMPLETION_MARKER)

max_attempts_text(c) ==
    <<"Maximum attempts reached without task completion for model ">> \o c.model_name

\* Variant: the continuation prompt is sent without looking at the message.
check_completion_nudge_first(c, ev) ==
    IF raised(ev)
    THEN except_handler(c, ExcText)
    ELSE LET d == [c EXCEPT !.msgs = Append(c.msgs, ev[2])]
         IN  IF c.attempt < MAX_ATTEMPTS
             THEN [d EXCEPT !.pc = "nudge"]
             ELSE IF is_task_completed(ev[2])
             THEN [d EXCEPT !.proto = "COMPLETED", !.pc = "extract"]
             ELSE return_value([d EXCEPT !.proto = "MAX_ATTEMPTS_EXHAUSTED"],
                               max_attempts_text(c))

\* Variant: the loop bound is off by one (attempt <= MAX_ATTEMPTS).
check_completion_off_by_one(c, ev) ==
    IF raised(ev)
    THEN except_handler(c, ExcText)
    ELSE LET d == [c EXCEPT !.msgs = Append(c.msgs, ev[2])]
         IN  IF is_task_completed(ev[2])
             THEN [d EXCEPT !.proto = "COMPLETED", !.pc = "extract"]
             ELSE IF c.attempt <= MAX_ATTEMPTS
             THEN [d EXCEPT !.pc = "nudge"]
             ELSE return_value([d EXCEPT !.proto = "MAX_ATTEMPTS_EXHAUSTED"],
                               max_attempts_text(c))

\* _get_last_agent_message, _is_task_completed and the end of the loop body
check_completion(c, ev) ==
    IF raised(ev)
    THEN except_handler(c, ExcText)
    ELSE LET d == [c EXCEPT !.msgs = Append(c.msgs, ev[2])]
         IN  IF is_task_completed(ev[2])
             THEN [d EXCEPT !.proto = "COMPLETED", !.pc = "extract"]
             ELSE IF c.attempt < MAX_ATTEMPTS
             THEN [d EXCEPT !.pc = "nudge"]
             ELSE return_value([d EXCEPT !.proto = "MAX_ATTEMPTS_EXHAUSTED"],
                               max_attempts_text(c))

\* _send_continuation_prompt, then the next iteration of the for loop
send_continuation_prompt(c, ev) ==
    IF raised(ev)
    THEN except_handler(c, ExcText)
    ELSE [c EXCEPT !.nudges = c.nudges + 1, !.attempt = c.attempt + 1,
                   !.proto = "AWAITING_RUN", !.pc = "run"]

\* The content of the k-th attachment in the order messages.list gives the
\* messages and their file path annotations, on the thread of runner idx.
csv_content(idx, k) == ToString(<<"csv", idx, k>>)

\* Variant: the parts are joined newest first instead of in listing order.
comparison_parts_newest_first(idx, n) ==
    [i \in 1..(5 * n) |->
        <<"# ", "Row Mapping", "\n", csv_content(idx, n - ((i - 1) \div 5)), "\n\n">>
            [((i - 1) % 5) + 1]]

RECURSIVE comparison_parts(_, _)
comparison_parts(idx, n) ==
    IF n = 0 THEN <<>>
    ELSE comparison_parts(idx, n - 1) \o <<"# ", "Row Mapping", "\n", csv_content(idx, n), "\n\n">>

RECURSIVE reorder_parts(_, _)
reorder_parts(idx, n) ==
    IF n = 0 THEN <<"# Reordering Analysis\n">>
    ELSE reorder_parts(idx, n - 1)
             \o <<"\n## ", "model_", ToString(idx), "_reordered.csv", "\n", csv_content(idx, n), "\n">>

\* _extract_csv_results / _process_reorder_results: n attachments were read
extract_results(c, ev) ==
    LET n == IF raised(ev) THEN 0 ELSE ev[2]
        d == [c EXCEPT !.extracts = c.extracts + 1, !.parts = n]
    IN  IF raised(ev)
        THEN except_handler(d, ExcText)
        ELSE IF c.svc = "comparison"
        THEN return_value(d, comparison_parts(c.model_index, n))
        ELSE IF n = 0
        THEN return_value(d, <<ERROR_PREFIX, " ", "No reordered output was generated">>)
        ELSE return_value(d, reorder_parts(c.model_index, n))

(***************************************************************************)
(* BaseAgentService._cleanup_agent_resources, one deletion per step.  Each *)
(* deletion sits in its own try/except: one that fails is logged, and the  *)
(* release goes on.  agents_client is set by the constructor (which raises *)
(* otherwise), so the early return for a missing client is never taken.    *)
(***************************************************************************)
\* one delete call on the remote service: the attempt, and whether it failed
try_delete(c, kind, id, ev) ==
    [c EXCEPT !.deleted = Append(c.deleted, <<kind, id>>),
              !.del_failed = IF raised(ev) THEN c.del_failed \cup {Len(c.deleted) + 1}
                                           ELSE c.del_failed]

\* Variant: the release starts with the agent instead of the thread.
cleanup_thread_agent_first(c, ev) ==
    [(IF c.agent_id # None THEN try_delete(c, "agent", c.agent_id, ev) ELSE c)
        EXCEPT !.del_i = 1, !.pc = "cleanup_files"]

\* if thread_id: self._cleanup_thread(thread_id, model_name)
cleanup_thread(c, ev) ==
    [(IF c.thread_id # None THEN try_delete(c, "thread", c.thread_id, ev) ELSE c)
        EXCEPT !.del_i = 1, !.pc = "cleanup_files"]

\* Variant: one try/except around the whole loop, so that the first file
\* deletion that fails ends the loop.
cleanup_files_one_try(c, ev) ==
    IF c.del_i <= Len(c.file_ids)
    THEN [try_delete(c, "file", c.file_ids[c.del_i], ev)
             EXCEPT !.del_i = c.del_i + 1,
                    !.pc = IF raised(ev) THEN "cleanup_agent" ELSE "cleanup_files"]
    ELSE [c EXCEPT !.pc = "cleanup_agent"]

\* if file_ids: self._cleanup_files(file_ids, model_name), one file per step
cleanup_files(c, ev) ==
    IF c.del_i <= Len(c.file_ids)
    THEN [try_delete(c, "file", c.file_ids[c.del_i], ev) EXCEPT !.del_i = c.del_i + 1]
    ELSE [c EXCEPT !.pc = "cleanup_agent"]

\* Variant: the agent deletion is not guarded by `if agent_id`.
cleanup_agent_unguarded(c, ev) ==
    [try_delete(c, "agent", c.agent_id, ev) EXCEPT !.pc = "cleanup_tmp"]

\* if agent_id: self._cleanup_agent(agent_id, model_name)
cleanup_agent(c, ev) ==
    [(IF c.agent_id # None THEN try_delete(c, "agent", c.agent_id, ev) ELSE c)
        EXCEPT !.pc = "cleanup_tmp"]

\* cleanup_temp_files(context.tmp_files), after which the runner returns
cleanup_temp_files(c, ev) ==
    [c EXCEPT !.removed = c.tmp_files, !.pc = "returned"]

(***************************************************************************)
(* The outcomes the collaborator called at c.pc can produce.               *)
(***************************************************************************)
Ok == <<"ok">>
Raise == <<"raise">>

Outcomes(c) ==
    CASE c.pc = "prepare" -> {Ok, <<"raise", 0>>, <<"raise", 1>>}
      [] c.pc \in {"upload", "create_agent", "create_thread", "post_task", "nudge"} ->
            {Ok, Raise}
      [] c.pc = "run" -> {<<"status", "completed">>, <<"status", "failed">>, Raise}
      [] c.pc = "get_message" -> {<<"msg", m>> : m \in AgentMessages} \cup {Raise}
      [] c.pc = "extract" -> {<<"parts", n>> : n \in 0..MaxParts} \cup {Raise}
      [] c.pc = "cleanup_thread" -> IF c.thread_id # None THEN {Ok, Raise} ELSE {Ok}
      [] c.pc = "cleanup_files" -> IF c.del_i <= Len(c.file_ids) THEN {Ok, Raise} ELSE {Ok}
      [] c.pc = "cleanup_agent" -> IF c.agent_id # None THEN {Ok, Raise} ELSE {Ok}
      [] c.pc = "cleanup_tmp" -> {Ok}
      [] OTHER -> {}

\* The next step of _run_comparison_sync / _run_reorder_sync from c.
RunnerStep(c, ev) ==
    CASE c.pc = "prepare" -> prepare_files(c, ev)
      [] c.pc = "upload" -> upload_files_to_agent(c, ev)
      [] c.pc = "create_agent" -> create_agent(c, ev)
      [] c.pc = "create_thread" -> create_thread(c, ev)
      [] c.pc = "post_task" -> post_task(c, ev)
      [] c.pc = "run" -> create_and_process(c, ev)
      [] c.pc = "get_message" -> check_completion(c, ev)
      [] c.pc = "nudge" -> send_continuation_prompt(c, ev)
      [] c.pc = "extract" -> extract_results(c, ev)
      [] c.pc = "cleanup_thread" -> cleanup_thread(c, ev)
      [] c.pc = "cleanup_files" -> cleanup_files(c, ev)
      [] c.pc = "cleanup_agent" -> cleanup_agent(c, ev)
      [] c.pc = "cleanup_tmp" -> cleanup_temp_files(c, ev)
      [] OTHER -> c

(***************************************************************************)
(* Step level: one runner execution, one action per call it makes.         *)
(***************************************************************************)
fanout_vars == <<service, model_deployments, fo_pc, results, model_outputs, judge, ret, pool,
                 execs, server, tool, disk>>

NoJudge == [calls |-> 0, candidates |-> <<>>, response |-> <<>>, raised |-> FALSE]

\* The executor before anything was submitted to it.
NoPool == [invs |-> <<>>, queue |-> <<>>, running |-> {}, submitted |-> 0]

\* No executions side by side, no server constructed, no tool constructed.
NoExecs == <<>>
NoServer == <<>>
NoTool == <<>>

\* The directory when nothing is in it.
NoDisk == {}

InitRunner ==
    /\ service \in Services
    /\ model_deployments \in Configs
    /\ \E idx \in 1..Len(model_deployments) :
           rc = NewContext(service, idx, model_deployments[idx])
    /\ fo_pc = "runner_only"
    /\ results = <<>>
    /\ model_outputs = <<>>
    /\ judge = NoJudge
    /\ ret = <<>>
    /\ pool = NoPool
    /\ execs = NoExecs
    /\ server = NoServer
    /\ tool = NoTool
    /\ disk = NoDisk

PrepareFiles ==
    /\ rc.pc = "prepare"
    /\ \E ev \in Outcomes(rc) : rc' = prepare_files(rc, ev)
    /\ UNCHANGED fanout_vars

UploadFile ==
    /\ rc.pc = "upload"
    /\ \E ev \in Outcomes(rc) : rc' = upload_files_to_agent(rc, ev)
    /\ UNCHANGED fanout_vars

CreateAgent ==
    /\ rc.pc = "create_agent"
    /\ \E ev \in Outcomes(rc) : rc' = create_agent(rc, ev)
    /\ UNCHANGED fanout_vars

CreateThread ==
    /\ rc.pc = "create_thread"
    /\ \E ev \in Outcomes(rc) : rc' = create_thread(rc, ev)
    /\ UNCHANGED fanout_vars

PostTask ==
    /\ rc.pc = "post_task"
    /\ \E ev \in Outcomes(rc) : rc' = post_task(rc, ev)
    /\ UNCHANGED fanout_vars

CreateAndProcessRun ==
    /\ rc.pc = "run"
    /\ \E ev \in Outcomes(rc) : rc' = create_and_process(rc, ev)
    /\ UNCHANGED fanout_vars

CheckCompletion ==
    /\ rc.pc = "get_message"
    /\ \E ev \in Outcomes(rc) : rc' = check_completion(rc, ev)
    /\ UNCHANGED fanout_vars

SendContinuationPrompt ==
    /\ rc.pc = "nudge"
    /\ \E ev \in Outcomes(rc) : rc' = send_continuation_prompt(rc, ev)
    /\ UNCHANGED fanout_vars

ExtractResults ==
    /\ rc.pc = "extract"
    /\ \E ev \in Outcomes(rc) : rc' = extract_results(rc, ev)
    /\ UNCHANGED fanout_vars

CleanupThread ==
    /\ rc.pc = "cleanup_thread"
    /\ \E ev \in Outcomes(rc) : rc' = cleanup_thread(rc, ev)
    /\ UNCHANGED fanout_vars

CleanupFiles ==
    /\ rc.pc = "cleanup_files"
    /\ \E ev \in Outcomes(rc) : rc' = cleanup_files(rc, ev)
    /\ UNCHANGED fanout_vars

CleanupAgent ==
    /\ rc.pc = "cleanup_agent"
    /\ \E ev \in Outcomes(rc) : rc' = cleanup_agent(rc, ev)
    /\ UNCHANGED fanout_vars

CleanupTempFiles ==
    /\ rc.pc = "cleanup_tmp"
    /\ \E ev \in Outcomes(rc) : rc' = cleanup_temp_files(rc, ev)
    /\ UNCHANGED fanout_vars


NextRunner ==
    \/ PrepareFiles
    \/ UploadFile
    \/ CreateAgent
    \/ CreateThread
    \/ PostTask
    \/ CreateAndProcessRun
    \/ CheckCompletion
    \/ SendContinuationPrompt
    \/ ExtractResults
    \/ CleanupThread
    \/ CleanupFiles
    \/ CleanupAgent
    \/ CleanupTempFiles

SpecRunner == InitRunner /\ [][NextRunner]_vars

(***************************************************************************)
(* Two runner executions side by side.  _run_comparison_sync and           *)
(* _run_reorder_sync each build their context as a local of the call; the  *)
(* executor's workers interleave the steps of the executions freely.  The  *)
(* two executions are any two of one fan-out (different configured         *)
(* positions) or of two fan-outs of the service (any positions, the same   *)
(* one included).  The remote service names what a call creates after the  *)
(* call, so an identifier tells which execution acquired it.  At this      *)
(* level a context keeps the fields the runner reads; the record of calls  *)
(* goes to execs.attempts.                                                 *)
(***************************************************************************)
\* Variant: one context kept on the service and used by every execution.
context_slot_on_service(r) == 1

\* agent_context = AgentContext(model_name) / reorder_context = ReorderContext(...):
\* the context execution r works on is the one it created itself
context_slot(r) == r

\* the fields AgentContext / ReorderContext have (model_name, model_index,
\* tmp_files, file_ids, agent_id, thread_id), with the loop variables of the
\* step the execution is in; the record of calls and of the outcome is left out
program_fields(c) ==
    [c EXCEPT !.pc = "-", !.copied = <<>>, !.removed = <<>>, !.agent_files = <<>>,
              !.runs = <<>>, !.msgs = <<>>, !.nudges = 0, !.extracts = 0, !.parts = 0,
              !.deleted = <<>>, !.del_failed = {}, !.result = <<>>,
              !.proto = "NOT_STARTED", !.raised = FALSE, !.propagates = FALSE,
              !.attempt = IF c.pc \in {"run", "get_message", "nudge"} THEN c.attempt ELSE 0,
              !.del_i = IF c.pc = "cleanup_files" THEN c.del_i ELSE 1]

\* files.upload_and_poll(...).id, create_agent(...).id, threads.create().id: what
\* the step of execution r from c to d acquired is named after r's call
remote_ids(r, c, d) ==
    [d EXCEPT !.file_ids = [i \in 1..Len(d.file_ids) |->
                               IF i <= Len(c.file_ids) THEN c.file_ids[i]
                                                       ELSE <<r, d.file_ids[i]>>],
              !.agent_id = IF c.agent_id = None /\ d.agent_id # None
                           THEN <<r, d.agent_id>> ELSE d.agent_id,
              !.thread_id = IF c.thread_id = None /\ d.thread_id # None
                            THEN <<r, d.thread_id>> ELSE d.thread_id]

InitExecs ==
    /\ service \in Services
    /\ model_deployments \in Configs
    /\ \E i, j \in 1..Len(model_deployments) :
           execs = [ ctx |-> << program_fields(NewContext(service, i, model_deployments[i])),
                                program_fields(NewContext(service, j, model_deployments[j])) >>,
                     pc |-> <<"prepare", "prepare">>,
                     attempts |-> {} ]
    /\ rc = IdleContext
    /\ fo_pc = "runners_only"
    /\ results = <<>>
    /\ model_outputs = <<>>
    /\ judge = NoJudge
    /\ ret = <<>>
    /\ pool = NoPool
    /\ server = NoServer
    /\ tool = NoTool
    /\ disk = NoDisk

\* one step of execution r, on the context it works on
ExecStep(r) ==
    LET s == context_slot(r)
        c == [execs.ctx[s] EXCEPT !.pc = execs.pc[r]]
    IN  /\ \E ev \in Outcomes(c) :
               LET d == remote_ids(r, c, RunnerStep(c, ev))
               IN  execs' = [ ctx |-> [execs.ctx EXCEPT ![s] = program_fields(d)],
                              pc |-> [execs.pc EXCEPT ![r] = d.pc],
                              attempts |-> execs.attempts \cup
                                  { <<r, d.deleted[k][1], d.deleted[k][2]>> :
                                        k \in 1..Len(d.deleted) } ]
        /\ UNCHANGED <<rc, service, model_deployments, fo_pc, results, model_outputs,
                       judge, ret, pool, server, tool, disk>>

NextExecs ==
    \/ ExecStep(1)
    \/ ExecStep(2)

SpecExecs == InitExecs /\ [][NextExecs]_vars

(***************************************************************************)
(* The release operation on its own: _cleanup_agent_resources called on a  *)
(* context as a runner leaves it at its finally clause, and called on the  *)
(* same context a second time.                                             *)
(***************************************************************************)
\* the contexts with which a runner going on from c enters its finally clause
RECURSIVE entering_release(_)
entering_release(c) ==
    IF c.pc = "cleanup_thread"
    THEN {c}
    ELSE UNION { entering_release(RunnerStep(c, ev)) : ev \in Outcomes(c) }

InitRelease ==
    /\ service \in Services
    /\ model_deployments \in Configs
    /\ \E idx \in 1..Len(model_deployments) :
           rc \in entering_release(NewContext(service, idx, model_deployments[idx]))
    /\ fo_pc = "first_release"
    /\ results = <<>>
    /\ model_outputs = <<>>
    /\ judge = NoJudge
    /\ ret = <<>>
    /\ pool = NoPool
    /\ execs = NoExecs
    /\ server = NoServer
    /\ tool = NoTool
    /\ disk = NoDisk

\* the release has returned; it is called again with the same context, whose
\* fields it has left as they were
ReleaseAgain ==
    /\ rc.pc = "returned"
    /\ fo_pc = "first_release"
    /\ rc' = [rc EXCEPT !.pc = "cleanup_thread"]
    /\ fo_pc' = "second_release"
    /\ UNCHANGED <<service, model_deployments, results, model_outputs, judge, ret, pool,
                   execs, server, tool, disk>>

NextRelease ==
    \/ CleanupThread
    \/ CleanupFiles
    \/ CleanupAgent
    \/ CleanupTempFiles
    \/ ReleaseAgain

SpecRelease == InitRelease /\ [][NextRelease]_vars

(***************************************************************************)
(* A whole runner execution, as the executor's future sees it: every       *)
(* context _run_comparison_sync / _run_reorder_sync can return with.       *)
(***************************************************************************)
(* A whole runner execution, as the executor's future sees it.             *)
(***************************************************************************)
\* How an execution ended (kept beside the returned text to state the claims).
outcome(c) ==
    IF c.raised THEN "exception"
    ELSE IF c.proto = "RUN_FAILED" THEN "run_failed"
    ELSE IF c.proto = "MAX_ATTEMPTS_EXHAUSTED" THEN "exhausted"
    ELSE IF c.svc = "reorder" /\ c.parts = 0 THEN "no_output"
    ELSE "success"

Pending ==
    [done |-> FALSE, is_exception |-> FALSE, value |-> <<>>, outcome |-> "pending",
     files |-> 0, parts |-> 0]

\* what the future holds once the function has returned with context c: the
\* returned text, or the exception that left the function; files: how many
\* attachments the reorder runner saved to the target directory; parts: how
\* many attachments the runner read (kept to state the claims)
future_result(c) ==
    [done |-> TRUE, is_exception |-> c.propagates, value |-> c.result,
     outcome |-> outcome(c),
     files |-> IF c.svc = "reorder" THEN c.parts ELSE 0,
     parts |-> c.parts]

\* every result _run_comparison_sync / _run_reorder_sync can end with when it
\* goes on from c
RECURSIVE run_sync(_)
run_sync(c) ==
    IF c.pc = "returned"
    THEN {future_result(c)}
    ELSE UNION { run_sync(RunnerStep(c, ev)) : ev \in Outcomes(c) }

\* loop.run_in_executor(self._executor, self._run_..._sync, ...): the values
\* the awaited future can resolve to.
run_single(svc, idx, name) == run_sync(NewContext(svc, idx, name))

\* The same, for the runner of the idx-th configured model of each service
\* (every configuration lists the first names of ModelNames).
RunnerResults ==
    [svc \in Services |->
        [idx \in 1..MaxModels |-> run_single(svc, idx, ModelNames[idx])]]

(***************************************************************************)
(* The fan-out orchestrators.                                              *)
(***************************************************************************)
\* _is_single_model_mode (the configuration always has model_deployments)
is_single_model_mode(models) == Len(models) = 1

\* Variant: every returned text is kept, whatever its prefix.
RECURSIVE collect_from_unfiltered(_, _, _)
collect_from_unfiltered(models, res, n) ==
    IF n = 0 THEN <<>>
    ELSE LET d == collect_from_unfiltered(models, res, n - 1)
         IN  IF res[n].is_exception THEN d
             ELSE dict_set(d, models[n], res[n].value)

\* Variant: an empty text is not kept either.
RECURSIVE collect_from_nonempty(_, _, _)
collect_from_nonempty(models, res, n) ==
    IF n = 0 THEN <<>>
    ELSE LET d == collect_from_nonempty(models, res, n - 1)
         IN  IF res[n].is_exception THEN d
             ELSE IF res[n].value # <<>> /\ ~startswith(res[n].value, ERROR_PREFIX)
             THEN dict_set(d, models[n], res[n].value)
             ELSE d

\* _collect_successful_outputs, and the same loop in _run_parallel_reordering
RECURSIVE collect_from(_, _, _)
collect_from(models, res, n) ==
    IF n = 0 THEN <<>>
    ELSE LET d == collect_from(models, res, n - 1)
         IN  IF res[n].is_exception THEN d
             ELSE IF ~startswith(res[n].value, ERROR_PREFIX)
             THEN dict_set(d, models[n], res[n].value)
             ELSE d

collect_successful_outputs(models, res) ==
    collect_from(models, res, IF Len(models) < Len(res) THEN Len(models) ELSE Len(res))

ALL_FAILED_TEXT == <<ERROR_PREFIX, " ", "All models failed to process the files">>

NoReturn == [kind |-> "none", value |-> <<>>, model |-> <<>>]
Returned(value, model) == [kind |-> "value", value |-> value, model |-> model]
RaisedError(text) == [kind |-> "raise", value |-> text, model |-> <<>>]

(***************************************************************************)
(* The judges.                                                             *)
(***************************************************************************)
\* Characters of an arbiter response.
RespChars == {"0", "1", "2", "7", "-", "x"}
Digits == {"0", "1", "2", "7"}

RECURSIVE SeqsUpTo(_, _)
SeqsUpTo(S, n) ==
    IF n = 0 THEN {<<>>}
    ELSE LET shorter == SeqsUpTo(S, n - 1)
         IN  shorter \cup { Append(q, x) : q \in shorter, x \in S }

\* str.strip()
RECURSIVE lstrip(_)
lstrip(s) == IF Len(s) > 0 /\ s[1] = " " THEN lstrip(Tail(s)) ELSE s
RECURSIVE rstrip(_)
rstrip(s) == IF Len(s) > 0 /\ s[Len(s)] = " " THEN rstrip(SubSeq(s, 1, Len(s) - 1)) ELSE s
strip(s) == rstrip(lstrip(s))

digit_value(ch) ==
    CASE ch = "0" -> 0 [] ch = "1" -> 1 [] ch = "2" -> 2 [] ch = "7" -> 7

RECURSIVE decimal(_)
decimal(ds) ==
    IF ds = <<>> THEN 0
    ELSE 10 * decimal(SubSeq(ds, 1, Len(ds) - 1)) + digit_value(ds[Len(ds)])

\* int(text): an optional sign and at least one digit, or ValueError
python_int(text) ==
    LET neg == Len(text) > 0 /\ text[1] = "-"
        ds == IF neg THEN Tail(text) ELSE text
    IN  IF ds # <<>> /\ \A i \in 1..Len(ds) : ds[i] \in Digits
        THEN [ok |-> TRUE, value |-> IF neg THEN 0 - decimal(ds) ELSE decimal(ds)]
        ELSE [ok |-> FALSE, value |-> 0]

\* What the arbiter call can do: raise, answer without content, answer text.
ComparisonResponses == SeqsUpTo(RespChars, MaxRespLen)
ReorderResponses ==
    { ModelNames[i] : i \in 1..(IF MaxModels < Len(ModelNames) THEN MaxModels + 1
                                                                  ELSE Len(ModelNames)) }
        \cup { <<"1">>, <<" ", "gpt-4">>, <<"'", "gpt-4", "'">>, <<>> }
ArbiterOutcomes(svc) ==
    {Raise, <<"none">>}
        \cup { <<"text", r>> : r \in IF svc = "comparison" THEN ComparisonResponses
                                                             ELSE ReorderResponses }

\* _prepare_numbered_outputs: ordinal i -> (model, output), in dict order
prepare_numbered_outputs(mo) == [i \in 1..Len(mo) |-> <<mo[i][1], mo[i][2]>>]

\* _build_selection_prompt: one "=== OUTPUT num ===" block per numbered output
build_selection_prompt(numbered) ==
    [outputs |-> [i \in 1..Len(numbered) |-> <<i, numbered[i][2]>>],
     num_outputs |-> Len(numbered)]

\* _get_selection_number: the API call, _extract_response_content and int()
get_selection_number(api) ==
    IF api[1] # "text"
    THEN [raised |-> TRUE, num |-> 0]
    ELSE LET parsed == python_int(strip(api[2]))
         IN  [raised |-> ~parsed.ok, num |-> parsed.value]

\* Variant: the model name of the selected pair is returned, not its output.
get_selected_output_name(numbered, selected_num, mo) ==
    IF selected_num \in 1..Len(numbered)
    THEN numbered[selected_num][1]
    ELSE dict_values(mo)[1]

\* Variant: the fallback takes the last entry.
get_selected_output_last(numbered, selected_num, mo) ==
    IF selected_num \in 1..Len(numbered)
    THEN numbered[selected_num][2]
    ELSE dict_values(mo)[Len(mo)]

\* _get_selected_output
get_selected_output(numbered, selected_num, mo) ==
    IF selected_num \in 1..Len(numbered)
    THEN numbered[selected_num][2]
    ELSE dict_values(mo)[1]

\* Variant: the except clause re-raises.
selection_failed_reraise(mo) == [kind |-> "raise", value |-> <<>>]

\* the except clause of select_best_csv_output
selection_failed(mo) == [kind |-> "value", value |-> dict_values(mo)[1]]

\* select_best_csv_output
select_best_csv_output(mo, api) ==
    IF Len(mo) = 1
    THEN [kind |-> "value", value |-> dict_values(mo)[1], calls |-> 0, raised |-> FALSE]
    ELSE LET numbered == prepare_numbered_outputs(mo)
             sel == get_selection_number(api)
         IN  IF sel.raised
             THEN selection_failed(mo) @@ [calls |-> 1, raised |-> TRUE]
             ELSE [kind |-> "value", value |-> get_selected_output(numbered, sel.num, mo),
                   calls |-> 1, raised |-> FALSE]

\* _build_comparison_data: candidate i is labelled "MODEL i (model)" and shown
\* with the samples of the files model_<i>_*.csv
build_comparison_data(mo) == [i \in 1..Len(mo) |-> <<mo[i][1], i>>]

\* _process_single_reordered_file: the names under which the runner with
\* model_index idx saves the files its agent produced
materialized_files(idx) ==
    { <<"model_", ToString(idx), "_", base, ".csv">> :
        base \in {"source_data_reordered", "legacy_etl_output_reordered"} }

\* _build_comparison_data: the files whose first lines are shown for
\* candidate i
sample_files(i) ==
    { <<"model_", ToString(i), "_", "source_data_reordered", ".csv">>,
      <<"model_", ToString(i), "_", "legacy_etl_output_reordered", ".csv">> }

(***************************************************************************)
(* The target directory of a reorder invocation, dirname(legacy_path): a   *)
(* set of files, each with its name and with who wrote it (a runner of     *)
(* this invocation, another invocation, or whoever put it there before).   *)
(* A name is a sequence of tokens ending with the extension.               *)
(***************************************************************************)
\* the names the agent gives its attachments, in the order they are listed
OutputNames ==
    [ k \in 1..MaxParts |->
        CASE k = 1 -> "source_data_reordered"
          [] k = 2 -> "legacy_etl_output_reordered"
          [] OTHER -> "reordered_" \o ToString(k) ]

File(name, origin) == [name |-> name, origin |-> origin]

\* what may lie in the directory when the invocation starts: nothing, or an
\* unrelated model_*.csv file, an older unprefixed result and a file that a
\* runner of another invocation in flight has saved
EarlierFiles ==
    { File(<<"model_", "archive", ".csv">>, <<"before">>),
      File(<<"source_data_reordered", ".csv">>, <<"before">>),
      File(<<"model_", "2", "_", "legacy_etl_output_reordered", ".csv">>, <<"other">>) }

InitialDirs(svc) == IF svc = "reorder" THEN {NoDisk, EarlierFiles} ELSE {NoDisk}

endswith(s, suffix) == Len(s) > 0 /\ s[Len(s)] = suffix

\* f.startswith(f"model_{model_index}_")
has_model_prefix(name, model_index) ==
    Len(name) > 3 /\ name[1] = "model_" /\ name[2] = ToString(model_index) /\ name[3] = "_"

\* file_name.replace(f"model_{model_index}_", "")
strip_model_prefix(name) == SubSeq(name, 4, Len(name))

file_names(d) == { f.name : f \in d }

\* writing a file replaces the one of the same name
write_file(d, name, origin) ==
    { f \in d : f.name # name } \cup {File(name, origin)}

\* _process_single_reordered_file for each of the n attachments of the runner
\* with model_index idx: files.save under model_<idx>_<name>
RECURSIVE save_reordered_files(_, _, _)
save_reordered_files(d, idx, n) ==
    IF n = 0 THEN d
    ELSE write_file(save_reordered_files(d, idx, n - 1),
                    <<"model_", ToString(idx), "_", OutputNames[n], ".csv">>,
                    <<"runner", idx>>)

\* self.model_deployments.index(winning_model) + 1
model_index_of(models, name) ==
    CHOOSE n \in 1..Len(models) :
        models[n] = name /\ \A m \in 1..(n - 1) : models[m] # name

\* os.rename(old, new) after os.remove(new) if new exists
rename_file(d, old_name, new_name) ==
    LET old == CHOOSE f \in d : f.name = old_name
    IN  write_file({ f \in d : f.name # old_name }, new_name, old.origin)

\* the winning files in the order they are renamed
winning_files(d, model_index) ==
    LET present == { k \in 1..Len(OutputNames) :
                       <<"model_", ToString(model_index), "_", OutputNames[k], ".csv">>
                           \in file_names(d) }
    IN  [ i \in 1..Cardinality(present) |->
            <<"model_", ToString(model_index), "_",
              OutputNames[CHOOSE k \in present :
                              Cardinality({ j \in present : j < k }) = i - 1], ".csv">> ]

\* the renaming loop: the first n winning files are renamed
RECURSIVE rename_winning(_, _, _)
rename_winning(d, files, n) ==
    IF n = 0 THEN d
    ELSE rename_file(rename_winning(d, files, n - 1), files[n],
                     strip_model_prefix(files[n]))

\* _cleanup_non_winning_files.  fs: Ok, or <<"raise", k>>: os.listdir raises
\* (k = 0), or the k-th os.rename does, if there are that many winning files
cleanup_non_winning_files(d, models, winning_model, fs) ==
    LET model_index == model_index_of(models, winning_model)
        all_model_files == { f \in d : f.name[1] = "model_" /\ endswith(f.name, ".csv") }
        kept == { f \in d : f \notin all_model_files
                               \/ has_model_prefix(f.name, model_index) }
        files == winning_files(all_model_files, model_index)
    IN  IF raised(fs) /\ fs[2] = 0
        THEN [disk |-> d, raised |-> TRUE]
        ELSE IF raised(fs) /\ fs[2] <= Len(files)
        THEN [disk |-> { f \in rename_winning(kept, files, fs[2] - 1) :
                            f.name # strip_model_prefix(files[fs[2]]) },
              raised |-> TRUE]
        ELSE [disk |-> rename_winning(kept, files, Len(files)), raised |-> FALSE]

\* what the file handling of _cleanup_non_winning_files can do
DiskOutcomes == {Ok} \cup { <<"raise", k>> : k \in 0..Len(OutputNames) }

\* the except clause of _select_best_reordering
reordering_failed(mo) == [kind |-> "value", model |-> dict_keys(mo)[1]]

\* _select_best_reordering: _get_model_selection, then for a known model
\* _cleanup_non_winning_files (fs: what the file handling does)
select_best_reordering(mo, api, fs) ==
    IF api[1] # "text"
    THEN reordering_failed(mo) @@ [calls |-> 1, raised |-> TRUE]
    ELSE LET selected_model == strip(api[2])
         IN  IF dict_has(mo, selected_model)
             THEN IF raised(fs)
                  THEN reordering_failed(mo) @@ [calls |-> 1, raised |-> TRUE]
                  ELSE [kind |-> "value", model |-> selected_model,
                        calls |-> 1, raised |-> FALSE]
             ELSE [kind |-> "value", model |-> dict_keys(mo)[1],
                   calls |-> 1, raised |-> FALSE]

(***************************************************************************)
(* Fan-out level: compare_csv_files / reorder_csv_files, one action per    *)
(* stretch of the coroutine between two awaits; a runner execution is one  *)
(* action (the resolution of its future).                                  *)
(***************************************************************************)
Init ==
    /\ service \in Services
    /\ model_deployments \in Configs
    /\ rc = IdleContext
    /\ fo_pc = "start"
    /\ results = [i \in 1..Len(model_deployments) |-> Pending]
    /\ model_outputs = <<>>
    /\ judge = NoJudge
    /\ ret = NoReturn
    /\ pool = NoPool
    /\ execs = NoExecs
    /\ server = NoServer
    /\ tool = NoTool
    /\ disk \in InitialDirs(service)

\* Variant: an empty output of the single runner is replaced by the
\* aggregate failure text.
CompareSingle_or_failure ==
    /\ fo_pc = "start"
    /\ service = "comparison"
    /\ is_single_model_mode(model_deployments)
    /\ \E r \in RunnerResults[service][1] :
          /\ results' = [results EXCEPT ![1] = r]
          /\ ret' = Returned(IF r.value = <<>> THEN ALL_FAILED_TEXT ELSE r.value, <<>>)
    /\ fo_pc' = "done"
    /\ UNCHANGED <<disk, execs, server, tool, pool, rc, service, model_deployments, model_outputs, judge>>

\* compare_csv_files in single model mode: await _run_single_comparison(...,
\* self.model_name) and return what it returns
CompareSingle ==
    /\ fo_pc = "start"
    /\ service = "comparison"
    /\ is_single_model_mode(model_deployments)
    /\ \E r \in RunnerResults[service][1] :
          /\ results' = [results EXCEPT ![1] = r]
          /\ ret' = Returned(r.value, <<>>)
    /\ fo_pc' = "done"
    /\ UNCHANGED <<disk, execs, server, tool, pool, rc, service, model_deployments, model_outputs, judge>>

\* _run_parallel_comparisons / _run_parallel_reordering: the coroutines are
\* created and handed to asyncio.gather
Dispatch ==
    /\ fo_pc = "start"
    /\ service = "comparison" => ~is_single_model_mode(model_deployments)
    /\ fo_pc' = "gather"
    /\ UNCHANGED <<disk, execs, server, tool, pool, rc, service, model_deployments, results, model_outputs, judge, ret>>

\* the future of runner i resolves
RunnerDone(i) ==
    /\ fo_pc = "gather"
    /\ ~results[i].done
    /\ \E r \in RunnerResults[service][i] :
          /\ results' = [results EXCEPT ![i] = r]
          /\ disk' = save_reordered_files(disk, i, r.files)
    /\ UNCHANGED <<execs, server, tool, pool, rc, service, model_deployments, fo_pc, model_outputs, judge, ret>>

\* Variant: the wait ends with the first runner that has a result.
gather_first_completed(rs) == \E i \in 1..Len(rs) : rs[i].done

\* await asyncio.gather(*coroutines, return_exceptions=True) returns once
\* every awaitable given to it has a result
gather_done(rs) == \A i \in 1..Len(rs) : rs[i].done

AllDone == gather_done(results)

\* _run_parallel_comparisons after gather, up to the await of the arbiter call
CollectComparison ==
    /\ fo_pc = "gather"
    /\ service = "comparison"
    /\ AllDone
    /\ LET mo == collect_successful_outputs(model_deployments, results)
       IN  /\ model_outputs' = mo
           /\ IF mo = <<>>
              THEN /\ ret' = Returned(ALL_FAILED_TEXT, <<>>)
                   /\ fo_pc' = "done"
                   /\ judge' = judge
              ELSE IF Len(mo) = 1
              THEN /\ ret' = Returned(dict_values(mo)[1], <<>>)
                   /\ fo_pc' = "done"
                   /\ judge' = judge
              ELSE /\ judge' = [judge EXCEPT !.candidates =
                                   build_selection_prompt(prepare_numbered_outputs(mo)).outputs]
                   /\ fo_pc' = "judge"
                   /\ ret' = ret
    /\ UNCHANGED <<disk, execs, server, tool, pool, rc, service, model_deployments, results>>

\* reorder_csv_files after _run_parallel_reordering, up to the await of the
\* arbiter call in _select_best_reordering
CollectReorder ==
    /\ fo_pc = "gather"
    /\ service = "reorder"
    /\ AllDone
    /\ LET mo == collect_successful_outputs(model_deployments, results)
       IN  /\ model_outputs' = mo
           /\ IF mo = <<>>
              THEN /\ ret' = RaisedError(<<"All models failed to reorder the files">>)
                   /\ fo_pc' = "done"
                   /\ judge' = judge
              ELSE IF Len(mo) = 1
              THEN /\ ret' = Returned(dict_values(mo)[1], dict_keys(mo)[1])
                   /\ fo_pc' = "done"
                   /\ judge' = judge
              ELSE /\ judge' = [judge EXCEPT !.candidates = build_comparison_data(mo)]
                   /\ fo_pc' = "judge"
                   /\ ret' = ret
    /\ UNCHANGED <<disk, execs, server, tool, pool, rc, service, model_deployments, results>>

\* select_best_csv_output from the arbiter call on; its value is returned
JudgeComparison ==
    /\ fo_pc = "judge"
    /\ service = "comparison"
    /\ \E api \in ArbiterOutcomes(service) :
          LET r == select_best_csv_output(model_outputs, api)
          IN  /\ judge' = [judge EXCEPT !.calls = judge.calls + r.calls,
                                        !.response = api, !.raised = r.raised]
              /\ ret' = IF r.kind = "value" THEN Returned(r.value, <<>>)
                                            ELSE RaisedError(<<"select_best_csv_output">>)
    /\ fo_pc' = "done"
    /\ UNCHANGED <<disk, execs, server, tool, pool, rc, service, model_deployments, results, model_outputs>>

\* _select_best_reordering from the arbiter call on, and the return of
\* reorder_csv_files: (model_outputs[best_model], best_model)
JudgeReorder ==
    /\ fo_pc = "judge"
    /\ service = "reorder"
    /\ \E api \in ArbiterOutcomes(service), fs \in DiskOutcomes :
          LET known == api[1] = "text" /\ dict_has(model_outputs, strip(api[2]))
              files == IF known
                       THEN cleanup_non_winning_files(disk, model_deployments,
                                                      strip(api[2]), fs)
                       ELSE [disk |-> disk, raised |-> FALSE]
              r == select_best_reordering(model_outputs, api,
                                          IF files.raised THEN Raise ELSE Ok)
          IN  /\ judge' = [judge EXCEPT !.calls = judge.calls + r.calls,
                                        !.response = api, !.raised = r.raised]
              /\ ret' = IF r.kind = "value"
                        THEN Returned(dict_get(model_outputs, r.model), r.model)
                        ELSE RaisedError(<<"_select_best_reordering">>)
              /\ disk' = files.disk
    /\ fo_pc' = "done"
    /\ UNCHANGED <<execs, server, tool, pool, rc, service, model_deployments, results, model_outputs>>

Next ==
    \/ CompareSingle
    \/ Dispatch
    \/ \E i \in 1..Len(model_deployments) : RunnerDone(i)
    \/ CollectComparison
    \/ CollectReorder
    \/ JudgeComparison
    \/ JudgeReorder

Spec == Init /\ [][Next]_vars

(***************************************************************************)
(* RowlevelAnalyzerAgentTool: what the caller of rowlevel_analyzer_agent   *)
(* gets for what compare_csv_files handed back (the two files exist, so    *)
(* _validate_file_paths passes).  The result is the analysis text or a     *)
(* dict {"error": ...}.                                                    *)
(***************************************************************************)
ERROR_INDICATORS == <<"Error:", "Run failed:">>

\* _is_error_response: any(indicator in response for indicator in ...)
is_error_response(response) ==
    \E i \in 1..Len(ERROR_INDICATORS) : contains(response, ERROR_INDICATORS[i])

AnalysisText(text) == [is_dict |-> FALSE, value |-> text]
ErrorDict(text) == [is_dict |-> TRUE, value |-> << <<"error", text>> >>]

\* _analyze_csv_differences: r is what the await of compare_csv_files gave
analyze_csv_differences(r) ==
    IF r.kind = "raise"
    THEN ErrorDict(r.value)
    ELSE IF is_error_response(r.value)
    THEN ErrorDict(r.value)
    ELSE AnalysisText(r.value)

\* rowlevel_analyzer_agent: the analysis result is reported and returned
rowlevel_analyzer_agent(r) == analyze_csv_differences(r)

(***************************************************************************)
(* The executor level: one service instance, its ThreadPoolExecutor and    *)
(* the invocations of compare_csv_files / reorder_csv_files that share it. *)
(* A runner execution is two actions here: a worker thread takes it off    *)
(* the executor's queue, and the function it runs returns (after its       *)
(* finally block).                                                         *)
(***************************************************************************)
\* the total number of runner executions submitted in one behaviour
MaxTasks == 4

\* Two deployment names that differ only in '.' against '_'
CollidingConfigs == { << <<"gpt-4", ".", "1">>, <<"gpt-4", "_", "1">> >> }

PoolConfigs == Configs \cup CollidingConfigs

\* Variant: the executor has one worker more than there are deployments.
max_workers_one_more(models) == Len(models) + 1

\* ThreadPoolExecutor(max_workers=len(self.model_deployments))
max_workers(models) == Len(models)

\* what the future of the runner of cfg[idx] can resolve to
PoolResults ==
    [svc \in Services |->
        [cfg \in PoolConfigs |->
            [idx \in 1..Len(cfg) |-> run_single(svc, idx, cfg[idx])]]]

\* the runners one invocation submits: the default model alone in single
\* model mode, else one per configured deployment
dispatched(svc, models) ==
    IF svc = "comparison" /\ is_single_model_mode(models) THEN 1 ELSE Len(models)

\* the local temporary paths of the runner of the idx-th configured model
runner_tmp_paths(svc, models, idx) == tmp_paths(NewContext(svc, idx, models[idx]))

NewInvocation(n) ==
    [pc |-> "gather", results |-> [i \in 1..n |-> Pending], model_outputs |-> <<>>]

\* the invocation has returned (or raised): its locals are gone
Finished == [pc |-> "done", results |-> <<>>, model_outputs |-> <<>>]

InitPool ==
    /\ service \in Services
    /\ model_deployments \in PoolConfigs
    /\ pool = NoPool
    /\ execs = NoExecs
    /\ server = NoServer
    /\ tool = NoTool
    /\ disk = NoDisk
    /\ rc = IdleContext
    /\ fo_pc = "pool"
    /\ results = <<>>
    /\ model_outputs = <<>>
    /\ judge = NoJudge
    /\ ret = NoReturn

pool_unchanged == <<disk, execs, server, tool, rc, service, model_deployments, fo_pc, results, model_outputs, judge>>

\* compare_csv_files / reorder_csv_files is called and runs up to its first
\* await: every runner of the invocation is submitted to self._executor
Invoke ==
    LET n == dispatched(service, model_deployments)
        k == Len(pool.invs) + 1
    IN  /\ pool.submitted + n <= MaxTasks
        /\ pool' = [pool EXCEPT !.invs = Append(pool.invs, NewInvocation(n)),
                                !.queue = pool.queue \o [i \in 1..n |-> <<k, i>>],
                                !.submitted = pool.submitted + n]
        /\ UNCHANGED <<pool_unchanged, ret>>

\* a worker thread of the executor takes the next work item
WorkerStart ==
    /\ pool.queue # <<>>
    /\ Cardinality(pool.running) < max_workers(model_deployments)
    /\ pool' = [pool EXCEPT !.queue = Tail(pool.queue),
                            !.running = pool.running \cup {Head(pool.queue)}]
    /\ UNCHANGED <<pool_unchanged, ret>>

\* Variant: the function returns and its worker thread stays taken.
RunnerReturn_worker_kept(t) ==
    /\ t \in pool.running
    /\ pool.invs[t[1]].pc = "gather"
    /\ ~pool.invs[t[1]].results[t[2]].done
    /\ \E r \in PoolResults[service][model_deployments][t[2]] :
          pool' = [pool EXCEPT !.invs[t[1]].results[t[2]] = r]
    /\ UNCHANGED <<pool_unchanged, ret>>

\* _run_comparison_sync / _run_reorder_sync returns on its worker thread
RunnerReturn(t) ==
    /\ t \in pool.running
    /\ \E r \in PoolResults[service][model_deployments][t[2]] :
          pool' = [pool EXCEPT !.running = pool.running \ {t},
                               !.invs[t[1]].results[t[2]] = r]
    /\ UNCHANGED <<pool_unchanged, ret>>

\* the invocation resumes after its await: the single runner's value is
\* returned, or the mapping is built and the judge prompt prepared
PoolCollect(k) ==
    LET inv == pool.invs[k]
        mo == collect_successful_outputs(model_deployments, inv.results)
    IN  /\ inv.pc = "gather"
        /\ gather_done(inv.results)
        /\ IF service = "comparison" /\ is_single_model_mode(model_deployments)
           THEN /\ ret' = Returned(inv.results[1].value, <<>>)
                /\ pool' = [pool EXCEPT !.invs[k] = Finished]
           ELSE IF mo = <<>>
           THEN /\ ret' = IF service = "comparison"
                          THEN Returned(ALL_FAILED_TEXT, <<>>)
                          ELSE RaisedError(<<"All models failed to reorder the files">>)
                /\ pool' = [pool EXCEPT !.invs[k] = Finished]
           ELSE IF Len(mo) = 1
           THEN /\ ret' = Returned(dict_values(mo)[1],
                                   IF service = "comparison" THEN <<>>
                                                             ELSE dict_keys(mo)[1])
                /\ pool' = [pool EXCEPT !.invs[k] = Finished]
           ELSE /\ ret' = ret
                /\ pool' = [pool EXCEPT !.invs[k] =
                               [inv EXCEPT !.pc = "judge", !.model_outputs = mo]]
        /\ UNCHANGED pool_unchanged

\* what the invocation hands to its caller once the arbiter has answered
judged(svc, mo, api, fs) ==
    LET r == IF svc = "comparison" THEN select_best_csv_output(mo, api)
                                   ELSE select_best_reordering(mo, api, fs)
    IN  IF r.kind # "value"
        THEN RaisedError(IF svc = "comparison" THEN <<"select_best_csv_output">>
                                               ELSE <<"_select_best_reordering">>)
        ELSE IF svc = "comparison" THEN Returned(r.value, <<>>)
        ELSE Returned(dict_get(mo, r.model), r.model)

\* One arbiter outcome for each way the call can go: the comparison judge
\* reads the response only through _get_selection_number, so responses with
\* the same selection number are one case.
ArbiterCases ==
    [svc \in Services |->
        IF svc = "comparison"
        THEN LET all == ArbiterOutcomes(svc)
                 nums == { get_selection_number(a) : a \in all }
             IN  { CHOOSE a \in all : get_selection_number(a) = n : n \in nums }
        ELSE ArbiterOutcomes(svc)]

\* what the file handling after the selection can do (the reorder service's
\* _cleanup_non_winning_files; the comparison service has none)
FileOutcomes(svc) == IF svc = "comparison" THEN {Ok} ELSE {Ok, Raise}

\* the arbiter answers and the invocation returns
PoolJudge(k) ==
    /\ pool.invs[k].pc = "judge"
    /\ \E v \in { judged(service, pool.invs[k].model_outputs, api, fs) :
                    api \in ArbiterCases[service], fs \in FileOutcomes(service) } :
          /\ ret' = v
          /\ pool' = [pool EXCEPT !.invs[k] = Finished]
    /\ UNCHANGED pool_unchanged

NextPool ==
    \/ Invoke
    \/ WorkerStart
    \/ \E t \in pool.running : RunnerReturn(t)
    \/ \E k \in 1..Len(pool.invs) : PoolCollect(k)
    \/ \E k \in 1..Len(pool.invs) : PoolJudge(k)

SpecPool == InitPool /\ [][NextPool]_vars

\* what the invocation hands back after the arbiter call, whatever the call
\* did: one of the candidates, or the error of the selection
judge_returns(svc, mo) ==
    { RaisedError(IF svc = "comparison" THEN <<"select_best_csv_output">>
                                       ELSE <<"_select_best_reordering">>) }
        \cup { Returned(mo[i][2], IF svc = "comparison" THEN <<>> ELSE mo[i][1]) :
                   i \in 1..Len(mo) }

\* the step PoolJudge(k) of some invocation k, told by what it does to the
\* invocation
ArbiterReturns ==
    \E k \in 1..Len(pool.invs) :
        /\ pool.invs[k].pc = "judge"
        /\ pool' = [pool EXCEPT !.invs[k] = Finished]
        /\ ret' \in judge_returns(service, pool.invs[k].model_outputs)
        /\ UNCHANGED pool_unchanged

\* The executor level with its scheduling: an idle worker thread takes the
\* next queued item; a runner that was started returns (every remote call
\* returns or raises, and the runner makes a bounded number of them); the
\* event loop resumes a coroutine whose awaited futures all have a result;
\* the arbiter call returns or raises.  Nothing obliges a caller to invoke.
SpecPoolFair ==
    /\ SpecPool
    /\ WF_vars(WorkerStart)
    /\ WF_vars(\E t \in pool.running : RunnerReturn(t))
    /\ WF_vars(\E k \in 1..Len(pool.invs) : PoolCollect(k))
    /\ WF_vars(ArbiterReturns)

(***************************************************************************)
(* LegacyEtlMCPServer.initialize, one step per constructor call and per    *)
(* tool registration.  A step that raises runs the except clauses of       *)
(* _initialize_services and of initialize in the same step.  initialize    *)
(* is a public method: it may be called again once it has returned.        *)
(***************************************************************************)
HandleNames ==
    << "openai_service", "csv_comparison_service", "code_generation_tool",
       "rowlevel_analyzer_tool", "order_consistency_tool", "refine_python_code_tool" >>

\* _register_tools registers these, in this order
ToolNames ==
    << "code_bootstrap_agent", "rowlevel_analyzer_agent", "order_consistency_agent",
       "code_refinement_agent" >>

\* LegacyEtlMcpConfig, as far as initialization reads it; an empty
\* model_deployments list makes ThreadPoolExecutor(max_workers=0) raise
ServerConfigs ==
    [ azure_openai_api_key : {None, <<"key">>},
      model_deployments : Configs \cup {<<>>} ]

\* _reset_services: every handle back to None
reset_services(s) ==
    [s EXCEPT !.openai_service = None, !.csv_comparison_service = None,
              !.code_generation_tool = None, !.rowlevel_analyzer_tool = None,
              !.order_consistency_tool = None, !.refine_python_code_tool = None]

\* LegacyEtlMCPServer.__init__
NewServer ==
    reset_services(
        [ config |-> None,
          openai_service |-> None, csv_comparison_service |-> None,
          code_generation_tool |-> None, rowlevel_analyzer_tool |-> None,
          order_consistency_tool |-> None, refine_python_code_tool |-> None,
          registered |-> {}, pc |-> "idle", ret |-> "none", failed_at |-> "none" ])

\* _get_default_model
get_default_model(config) ==
    IF config.model_deployments # <<>> THEN config.model_deployments[1] ELSE "gpt-4"

\* the exception classes a step can raise
ConnectionError == <<"raise", "ConnectionError">>
ValueError == <<"raise", "ValueError">>
OtherError == <<"raise", "RuntimeError">>

\* Variant: the second except clause returns False without resetting.
initialize_failed_no_reset(s, ev) ==
    IF ev[2] = "ConnectionError"
    THEN [reset_services(s) EXCEPT !.ret = FALSE, !.pc = "done", !.failed_at = s.pc]
    ELSE [s EXCEPT !.ret = FALSE, !.pc = "done", !.failed_at = s.pc]

\* initialize: except ConnectionError / except Exception, both reset and
\* return False
initialize_failed(s, ev) ==
    IF ev[2] = "ConnectionError"
    THEN [reset_services(s) EXCEPT !.ret = FALSE, !.pc = "done", !.failed_at = s.pc]
    ELSE [reset_services(s) EXCEPT !.ret = FALSE, !.pc = "done", !.failed_at = s.pc]

\* initialize, entry: self.config = config
initialize(s, config) ==
    [s EXCEPT !.config = config, !.pc = "openai_service", !.ret = "none",
              !.failed_at = "none"]

\* self.openai_service = OpenAIService(self.config), in its own try: a
\* ConnectionError resets the handles and is raised again
create_openai_service(s, ev) ==
    IF raised(ev)
    THEN IF ev[2] = "ConnectionError"
         THEN [initialize_failed(reset_services(s), ev) EXCEPT !.failed_at = s.pc]
         ELSE initialize_failed(s, ev)
    ELSE [s EXCEPT !.openai_service = <<"OpenAIService", s.config>>,
                   !.pc = "csv_comparison_service"]

\* the constructor calls that follow, each assigning its handle
create_handle(s, ev) ==
    IF raised(ev)
    THEN initialize_failed(s, ev)
    ELSE CASE s.pc = "csv_comparison_service" ->
                [s EXCEPT !.csv_comparison_service =
                              <<"CSVComparisonAgentService", s.openai_service,
                                get_default_model(s.config)>>,
                          !.pc = "code_generation_tool"]
           [] s.pc = "code_generation_tool" ->
                [s EXCEPT !.code_generation_tool = <<"CodeGenerationTool", s.openai_service>>,
                          !.pc = "rowlevel_analyzer_tool"]
           [] s.pc = "rowlevel_analyzer_tool" ->
                [s EXCEPT !.rowlevel_analyzer_tool =
                              <<"RowlevelAnalyzerAgentTool", s.csv_comparison_service, s.config>>,
                          !.pc = "order_consistency_tool"]
           [] s.pc = "order_consistency_tool" ->
                [s EXCEPT !.order_consistency_tool =
                              <<"OrderConsistencyAgentTool", s.openai_service>>,
                          !.pc = "refine_python_code_tool"]
           [] s.pc = "refine_python_code_tool" ->
                [s EXCEPT !.refine_python_code_tool =
                              <<"RefinePythonCodeTool", s.openai_service>>,
                          !.pc = "register_1"]

\* _register_tools, the k-th registration; after the last one initialize
\* returns True
register_tool(s, k, ev) ==
    IF raised(ev)
    THEN initialize_failed(s, ev)
    ELSE [s EXCEPT !.registered = s.registered \cup {ToolNames[k]},
                   !.pc = IF k = Len(ToolNames) THEN "done"
                          ELSE "register_" \o ToString(k + 1),
                   !.ret = IF k = Len(ToolNames) THEN TRUE ELSE "none"]

\* what the call made at s.pc can do
ServerOutcomes(s) ==
    CASE s.pc = "openai_service" ->
            IF s.config.azure_openai_api_key = None THEN {ConnectionError}
            ELSE {Ok, ConnectionError}
      [] s.pc \in {"csv_comparison_service", "order_consistency_tool"} ->
            IF s.config.model_deployments = <<>> THEN {ValueError}
            ELSE {Ok, ValueError, ConnectionError}
      [] s.pc = "code_generation_tool" -> {Ok, OtherError}
      [] s.pc \in {"rowlevel_analyzer_tool", "refine_python_code_tool"} -> {Ok}
      [] OTHER -> {Ok, OtherError}

server_unchanged ==
    <<rc, service, model_deployments, fo_pc, results, model_outputs, judge, ret, pool,
      execs, tool, disk>>

InitServer ==
    /\ server = NewServer
    /\ service = "comparison"
    /\ model_deployments = SubSeq(ModelNames, 1, 1)
    /\ rc = IdleContext
    /\ fo_pc = "server_only"
    /\ results = <<>>
    /\ model_outputs = <<>>
    /\ judge = NoJudge
    /\ ret = <<>>
    /\ pool = NoPool
    /\ execs = NoExecs
    /\ tool = NoTool
    /\ disk = NoDisk

Initialize ==
    /\ server.pc \in {"idle", "done"}
    /\ \E config \in ServerConfigs : server' = initialize(server, config)
    /\ UNCHANGED server_unchanged

CreateOpenAIService ==
    /\ server.pc = "openai_service"
    /\ \E ev \in ServerOutcomes(server) : server' = create_openai_service(server, ev)
    /\ UNCHANGED server_unchanged

CreateHandle ==
    /\ server.pc \in {"csv_comparison_service", "code_generation_tool",
                      "rowlevel_analyzer_tool", "order_consistency_tool",
                      "refine_python_code_tool"}
    /\ \E ev \in ServerOutcomes(server) : server' = create_handle(server, ev)
    /\ UNCHANGED server_unchanged

RegisterTool(k) ==
    /\ server.pc = "register_" \o ToString(k)
    /\ \E ev \in ServerOutcomes(server) : server' = register_tool(server, k, ev)
    /\ UNCHANGED server_unchanged

NextServer ==
    \/ Initialize
    \/ CreateOpenAIService
    \/ CreateHandle
    \/ \E k \in 1..Len(ToolNames) : RegisterTool(k)

SpecServer == InitServer /\ [][NextServer]_vars

(***************************************************************************)
(* CodeGenerationTool: code_bootstrap_agent behind the mcp_tool_cache      *)
(* wrapper.  One action is one call of the wrapped tool, from the cache    *)
(* lookup to the return; between calls the directories the tool is pointed *)
(* at can be created, filled, emptied or removed.  The cache starts as     *)
(* _load_cache finds no cache file.  Dicts are ordered sequences of        *)
(* <<key, value>>, as elsewhere.                                           *)
(***************************************************************************)
InputDirs == {"/data/a", "/data/b"}

\* what a path holds: nothing (no such directory), a directory without legacy
\* or csv files, one whose legacy files are blank, one with files to analyze
DirKinds == {"absent", "empty", "blank", "files"}

\* what analyze_legacy_etl_code answers
Descriptions == {<<"migrated code">>, <<"error">>}

\* BaseTool.build_error_response
build_error_response(error) == << <<"error", error>> >>

\* _build_empty_response
build_empty_response ==
    << <<"description", <<"No legacy ETL or CSV files found to analyze.">> >>,
       <<"analyzed_legacy_etl_files", <<>> >>,
       <<"analyzed_csv_files", <<>> >> >>

\* _build_success_response
build_success_response(description, input_dir) ==
    << <<"description", description>>,
       <<"analyzed_legacy_etl_files", <<input_dir, "legacy.sql">> >>,
       <<"analyzed_csv_files", <<input_dir, "source.csv">> >> >>

\* Variant: every result is cacheable.
is_cacheable_result_any(result) == TRUE

\* _is_cacheable_result: a dict is cacheable unless it has the key "error"
is_cacheable_result(result) == ~dict_has(result, "error")

\* cache_key = (func.__name__, tuple(sorted(kwargs.items())))
cache_key(input_dir) == <<"code_bootstrap_agent", << <<"input_dir", input_dir>> >> >>

\* one call as seen from outside: what it returned and what it reported
CallRecord(input_dir, kind, result, errors, model_calls, hit, before) ==
    [ input_dir |-> input_dir, dir_kind |-> kind, result |-> result, errors |-> errors,
      model_calls |-> model_calls, hit |-> hit, cache_before |-> before ]

NoCall == CallRecord("", "absent", <<>>, 0, 0, FALSE, <<>>)

\* CodeGenerationTool.__init__ with no cache file on disk
NewTool(fs) == [cache |-> <<>>, saved |-> <<>>, fs |-> fs, last |-> NoCall]

\* validate_directory: the error message, or None
validate_directory(kind, input_dir) ==
    IF kind = "absent" THEN <<"Directory not found: ", input_dir>> ELSE None

\* execute and the try/except of code_bootstrap_agent around it: the result,
\* the ctx.error reports and the model calls made
code_bootstrap_agent(kind, input_dir, ev) ==
    LET error == validate_directory(kind, input_dir)
    IN  IF error # None
        THEN [result |-> build_error_response(error), errors |-> 1, model_calls |-> 0]
        ELSE IF kind \in {"empty", "blank"}
        THEN [result |-> build_empty_response, errors |-> 0, model_calls |-> 0]
        ELSE IF raised(ev)
        THEN [result |-> build_error_response(ExcText), errors |-> 1, model_calls |-> 1]
        ELSE [result |-> build_success_response(ev[2], input_dir), errors |-> 0,
              model_calls |-> 1]

\* Variant: the wrapper runs the tool on every call and stores what it gets.
wrapper_always_runs(t, input_dir, ev, sv) ==
    LET key == cache_key(input_dir)
        kind == t.fs[input_dir]
        r == code_bootstrap_agent(kind, input_dir, ev)
        cache == IF is_cacheable_result(r.result)
                 THEN dict_set(t.cache, key, r.result) ELSE t.cache
    IN  [t EXCEPT !.cache = cache,
                  !.saved = IF is_cacheable_result(r.result) /\ ~raised(sv)
                            THEN cache ELSE t.saved,
                  !.last = CallRecord(input_dir, kind, r.result, r.errors,
                                      r.model_calls, FALSE, t.cache)]

\* mcp_tool_cache.wrapper: a cached result is returned as it is; otherwise
\* the tool runs, and a cacheable result is stored and the cache saved
\* (sv: whether _save_cache managed to write the file)
wrapper(t, input_dir, ev, sv) ==
    LET key == cache_key(input_dir)
        kind == t.fs[input_dir]
    IN  IF dict_has(t.cache, key)
        THEN [t EXCEPT !.last = CallRecord(input_dir, kind, dict_get(t.cache, key), 0, 0,
                                           TRUE, t.cache)]
        ELSE LET r == code_bootstrap_agent(kind, input_dir, ev)
                 cache == IF is_cacheable_result(r.result)
                          THEN dict_set(t.cache, key, r.result) ELSE t.cache
             IN  [t EXCEPT !.cache = cache,
                           !.saved = IF is_cacheable_result(r.result) /\ ~raised(sv)
                                     THEN cache ELSE t.saved,
                           !.last = CallRecord(input_dir, kind, r.result, r.errors,
                                               r.model_calls, FALSE, t.cache)]

\* what the model call can do
ModelOutcomes == { <<"text", d>> : d \in Descriptions } \cup {Raise}

tool_unchanged ==
    <<rc, service, model_deployments, fo_pc, results, model_outputs, judge, ret, pool,
      execs, server, disk>>

InitTool ==
    /\ \E fs \in [InputDirs -> DirKinds] : tool = NewTool(fs)
    /\ service = "comparison"
    /\ model_deployments = SubSeq(ModelNames, 1, 1)
    /\ rc = IdleContext
    /\ fo_pc = "tool_only"
    /\ results = <<>>
    /\ model_outputs = <<>>
    /\ judge = NoJudge
    /\ ret = <<>>
    /\ pool = NoPool
    /\ execs = NoExecs
    /\ server = NoServer
    /\ disk = NoDisk

CodeBootstrapAgent ==
    /\ \E input_dir \in InputDirs, ev \in ModelOutcomes, sv \in {Ok, Raise} :
           tool' = wrapper(tool, input_dir, ev, sv)
    /\ UNCHANGED tool_unchanged

\* the environment: a directory is created, filled, emptied or removed
DirectoryChanges ==
    /\ \E d \in InputDirs, kind \in DirKinds :
           /\ tool.fs[d] # kind
           /\ tool' = [tool EXCEPT !.fs[d] = kind]
    /\ UNCHANGED tool_unchanged

NextTool ==
    \/ CodeBootstrapAgent
    \/ DirectoryChanges

SpecTool == InitTool /\ [][NextTool]_vars

(***************************************************************************)
(* Properties of one runner execution (SpecRunner).                        *)
(***************************************************************************)
Range(q) == { q[i] : i \in 1..Len(q) }

\* The try body is left: the return value is fixed and release is under way
\* or finished.
Terminated(c) ==
    c.pc \in {"cleanup_thread", "cleanup_files", "cleanup_agent", "cleanup_tmp", "returned"}

\* The agent message holds the completion sentinel.
HasSentinel(m) == m.present /\ \E i \in 1..Len(m.value) : m.value[i] = "TASK COMPLETED"

\* C1: when a runner (comparison or reorder) has returned, on whichever exit
\* path, a deletion has been attempted for every uploaded file id, for the
\* agent id and for the thread id recorded in its context.
C1_ReleasedOnEveryExit ==
    rc.pc = "returned" =>
        /\ \A i \in 1..Len(rc.file_ids) : <<"file", rc.file_ids[i]>> \in Range(rc.deleted)
        /\ rc.agent_id # None => <<"agent", rc.agent_id>> \in Range(rc.deleted)
        /\ rc.thread_id # None => <<"thread", rc.thread_id>> \in Range(rc.deleted)

\* A runner that held two files, an agent and a thread returned through its
\* except clause with all four deletions attempted.
C1_Witness ==
    /\ rc.pc = "returned"
    /\ rc.raised
    /\ Len(rc.file_ids) = 2
    /\ rc.agent_id # None
    /\ rc.thread_id # None
    /\ Len(rc.deleted) = 4

\* C6: one execution of the comparison protocol invokes the remote run at
\* most MAX_ATTEMPTS times.
C6_RetryBound == rc.svc = "comparison" => Len(rc.runs) <= MAX_ATTEMPTS

\* The comparison protocol has invoked the run MAX_ATTEMPTS times.
C6_Witness == rc.svc = "comparison" /\ Len(rc.runs) = MAX_ATTEMPTS /\ rc.pc = "returned"

\* C7: the comparison protocol ends in MAX_ATTEMPTS_EXHAUSTED (returning the
\* 'Maximum attempts reached' text) exactly when MAX_ATTEMPTS runs were
\* executed, none failed, and the agent message fetched after each lacked the
\* sentinel; it reaches COMPLETED exactly when some run within the bound was
\* not failed and the message fetched after it held the sentinel.
C7_ProtocolOutcome ==
    rc.svc = "comparison" =>
        /\ rc.proto = "MAX_ATTEMPTS_EXHAUSTED"
              <=> /\ Len(rc.runs) = MAX_ATTEMPTS
                  /\ Len(rc.msgs) = MAX_ATTEMPTS
                  /\ \A i \in 1..MAX_ATTEMPTS :
                        rc.runs[i] # "failed" /\ ~HasSentinel(rc.msgs[i])
        /\ rc.proto = "MAX_ATTEMPTS_EXHAUSTED"
              => Terminated(rc) /\ ~rc.raised /\ rc.result = max_attempts_text(rc)
        /\ rc.proto = "COMPLETED"
              <=> \E i \in 1..Len(rc.msgs) :
                     i <= MAX_ATTEMPTS /\ rc.runs[i] # "failed" /\ HasSentinel(rc.msgs[i])

\* The comparison runner returned after exhausting its attempts.
C7_Witness ==
    /\ rc.svc = "comparison"
    /\ rc.pc = "returned"
    /\ rc.proto = "MAX_ATTEMPTS_EXHAUSTED"
    /\ Len(rc.runs) = MAX_ATTEMPTS

\* C8: in the comparison protocol, once a run has returned status 'failed'
\* the runner is on its way out with the failure text: the failed run is the
\* last run, no nudge was posted and no message fetched after it, and no
\* result is extracted.
C8_FailedRunEndsProtocol ==
    (rc.svc = "comparison" /\ "failed" \in Range(rc.runs)) =>
        /\ Terminated(rc)
        /\ rc.runs[Len(rc.runs)] = "failed"
        /\ \A i \in 1..(Len(rc.runs) - 1) : rc.runs[i] # "failed"
        /\ Len(rc.msgs) = Len(rc.runs) - 1
        /\ rc.nudges = Len(rc.runs) - 1
        /\ rc.extracts = 0
        /\ rc.result = <<"Run failed:", " ", "server_error">>

\* The run of attempt 1 failed and the comparison runner returned.
C8_Witness ==
    /\ rc.svc = "comparison"
    /\ rc.pc = "returned"
    /\ rc.runs = <<"failed">>

(***************************************************************************)
(* Properties of a fan-out (Spec).                                         *)
(***************************************************************************)
Succeeded(i) == results[i].outcome = "success"
SucceededSet == { i \in 1..Len(results) : Succeeded(i) }
K == Cardinality(SucceededSet)

\* The orchestrator has built its success mapping (single model mode of the
\* comparison service builds none).
MappingBuilt ==
    /\ fo_pc \in {"judge", "done"}
    /\ ~(service = "comparison" /\ is_single_model_mode(model_deployments))

\* C2: a model whose runner ended in an exception, in a failed run or in
\* retry exhaustion has no entry in the success mapping, and every model that
\* succeeded has its own result as its entry.
C2_FailuresExcluded ==
    MappingBuilt =>
        \A i \in 1..Len(results) :
            /\ results[i].outcome \in {"exception", "run_failed", "exhausted"}
                  => ~dict_has(model_outputs, model_deployments[i])
            /\ Succeeded(i)
                  => /\ dict_has(model_outputs, model_deployments[i])
                     /\ dict_get(model_outputs, model_deployments[i]) = results[i].value

\* C3: when no runner succeeded, compare_csv_files returns the aggregate
\* failure text and reorder_csv_files raises, for every model count.
C3_AggregateFailure ==
    (fo_pc = "done" /\ K = 0) =>
        IF service = "comparison"
        THEN ret = Returned(ALL_FAILED_TEXT, <<>>)
        ELSE ret.kind = "raise"

\* C4: when exactly one runner succeeded the arbiter is never called and the
\* caller gets exactly that runner's result.
C4_SingleSuccessVerbatim ==
    (fo_pc = "done" /\ K = 1) =>
        /\ judge.calls = 0
        /\ ret.kind = "value"
        /\ \A i \in SucceededSet : ret.value = results[i].value

\* C5: when two or more runners succeeded the arbiter is called exactly once
\* and the judge prompt holds exactly one candidate per successful model.
C5_JudgeSeesSuccesses ==
    (fo_pc = "done" /\ K >= 2) =>
        /\ judge.calls = 1
        /\ Len(judge.candidates) = K
        /\ Len(model_outputs) = K

\* Reading an arbiter response as a choice among k candidates: a decimal
\* numeral, leading zeros allowed, of a number in 1..k.
OrdinalChars == <<"1", "2", "3", "4", "5", "6", "7", "8", "9">>
RECURSIVE DropZeros(_)
DropZeros(q) == IF Len(q) > 0 /\ q[1] = "0" THEN DropZeros(Tail(q)) ELSE q
IsOrdinal(resp, k) == \E n \in 1..k : DropZeros(resp) = <<OrdinalChars[n]>>

\* Reading an arbiter response as the name of a model of the mapping.
RECURSIVE Trim(_)
Trim(q) ==
    IF Len(q) > 0 /\ q[1] = " " THEN Trim(Tail(q))
    ELSE IF Len(q) > 0 /\ q[Len(q)] = " " THEN Trim(SubSeq(q, 1, Len(q) - 1))
    ELSE q
IsKey(resp, mo) == \E i \in 1..Len(mo) : Trim(resp) = mo[i][1]

FirstEntry ==
    IF service = "comparison"
    THEN Returned(model_outputs[1][2], <<>>)
    ELSE Returned(model_outputs[1][2], model_outputs[1][1])

\* C9: an arbiter response that is not a valid choice (a number outside
\* 1..K, zero, a negative number or text that is no number for the comparison
\* judge; a name that is no key of the mapping for the reorder judge) makes
\* the selector return the first entry of the success mapping.
C9_InvalidChoiceFallsBack ==
    (fo_pc = "done" /\ judge.calls = 1 /\ judge.response[1] = "text") =>
        /\ (service = "comparison" /\ ~IsOrdinal(judge.response[2], Len(model_outputs)))
              => ret = FirstEntry
        /\ (service = "reorder" /\ ~IsKey(judge.response[2], model_outputs))
              => ret = FirstEntry

\* The comparison arbiter answered "7" with two candidates whose outputs differ.
C9_Witness ==
    /\ fo_pc = "done"
    /\ service = "comparison"
    /\ Len(model_outputs) = 2
    /\ model_outputs[1][2] # model_outputs[2][2]
    /\ judge.response = <<"text", <<"7">>>>

\* C10: an exception raised while the judge runs (the arbiter call, the
\* parsing of its response, the file handling after a valid reorder choice)
\* is answered with the first entry of the success mapping, and neither
\* selector raises.
C10_JudgeNeverRaises ==
    (fo_pc = "done" /\ judge.calls = 1) =>
        /\ ret.kind = "value"
        /\ judge.raised => ret = FirstEntry

\* The comparison arbiter call raised with candidates whose outputs differ.
C10_Witness ==
    /\ fo_pc = "done"
    /\ service = "comparison"
    /\ judge.raised
    /\ judge.response = Raise
    /\ Len(model_outputs) >= 2
    /\ model_outputs[1][2] # model_outputs[Len(model_outputs)][2]

(***************************************************************************)
(* Properties of the executor and the invocations sharing it (SpecPool).   *)
(***************************************************************************)
\* the runner executions of invocation k that have not returned yet
Unfinished(p, k) ==
    { t \in p.running : t[1] = k } \cup
    { p.queue[i] : i \in { j \in 1..Len(p.queue) : p.queue[j][1] = k } }

\* C11: an orchestrator builds the success mapping and calls the judge only
\* after every runner it dispatched has returned (its cleanup included), and
\* a runner that returns, with a failure or not, leaves every other
\* submitted runner queued or running: none is cancelled or skipped.
C11_GatherWaitsForAll ==
    /\ [](\A k \in 1..Len(pool.invs) :
            pool.invs[k].pc = "judge" =>
                /\ \A i \in 1..Len(pool.invs[k].results) : pool.invs[k].results[i].done
                /\ Unfinished(pool, k) = {})
    /\ [][\A k \in 1..Len(pool.invs) :
            /\ (pool.invs[k].pc = "gather" /\ pool'.invs[k].pc # "gather") =>
                  /\ \A i \in 1..Len(pool.invs[k].results) : pool.invs[k].results[i].done
                  /\ Unfinished(pool, k) = {}
            /\ \A t \in Unfinished(pool, k) :
                  \/ t \in Unfinished(pool', k)
                  \/ /\ t \in pool.running
                     /\ pool'.invs[k].pc = "gather"
                     /\ pool'.invs[k].results[t[2]].done]_vars

\* a judge is about to be called for a fan-out in which one runner ended in
\* an exception and another one succeeded
C11_Witness ==
    \E k \in 1..Len(pool.invs) :
        /\ pool.invs[k].pc = "judge"
        /\ \E i \in 1..Len(pool.invs[k].results) :
              pool.invs[k].results[i].outcome = "exception"
        /\ \E i \in 1..Len(pool.invs[k].results) :
              pool.invs[k].results[i].outcome = "success"

\* C12: the runner executions in progress inside one service instance never
\* outnumber the configured deployments, however many invocations share the
\* executor; an execution in progress has no result yet (it keeps its worker
\* until its function has returned) and is no longer waiting in the queue.
C12_WorkersBounded ==
    /\ Cardinality(pool.running) <= Len(model_deployments)
    /\ \A t \in pool.running :
          /\ ~pool.invs[t[1]].results[t[2]].done
          /\ \A i \in 1..Len(pool.queue) : pool.queue[i] # t

\* two invocations are in flight, their runners hold every worker and a
\* further runner waits in the executor's queue
C12_Witness ==
    /\ Len(model_deployments) >= 2
    /\ Cardinality(pool.running) = Len(model_deployments)
    /\ \E t, u \in pool.running : t[1] # u[1]
    /\ pool.queue # <<>>

\* C13: within one fan-out, two runners in progress at the same time never
\* work on a common local temporary path.
C13_DistinctTempPaths ==
    \A t, u \in pool.running :
        (t # u /\ t[1] = u[1]) =>
            Range(runner_tmp_paths(service, model_deployments, t[2]))
                \cap Range(runner_tmp_paths(service, model_deployments, u[2])) = {}

(***************************************************************************)
(* Properties of the release operation (SpecRelease, SpecRunner).          *)
(***************************************************************************)
\* C14: when the release is invoked twice on the same context, no remote
\* identifier whose deletion has succeeded is the object of another
\* deletion attempt.
C14_NoSecondDeletion ==
    \A i, j \in 1..Len(rc.deleted) :
        (i < j /\ rc.deleted[i] = rc.deleted[j]) => i \in rc.del_failed

\* the place of a kind of resource in the order of the release
ReleaseRank(kind) == CASE kind = "thread" -> 1 [] kind = "file" -> 2 [] kind = "agent" -> 3

\* C15: the release attempts its deletions in the order thread, then every
\* file in the order of the list, then the agent.
C15_ReleaseOrder ==
    /\ \A i, j \in 1..Len(rc.deleted) :
          i < j => ReleaseRank(rc.deleted[i][1]) <= ReleaseRank(rc.deleted[j][1])
    /\ LET first == IF rc.deleted # <<>> /\ rc.deleted[1][1] = "thread" THEN 1 ELSE 0
       IN  \A i \in 1..Len(rc.deleted) :
              rc.deleted[i][1] = "file" => rc.deleted[i][2] = rc.file_ids[i - first]

\* a release that went thread, first file, second file, agent
C15_Witness ==
    /\ rc.pc = "returned"
    /\ Len(rc.deleted) = 4
    /\ rc.deleted[1] = <<"thread", rc.thread_id>>
    /\ rc.deleted[2] = <<"file", rc.file_ids[1]>>
    /\ rc.deleted[3] = <<"file", rc.file_ids[2]>>
    /\ rc.deleted[4] = <<"agent", rc.agent_id>>

\* the deletions a release of context c owes: one per recorded resource
OwedDeletions(c) ==
    (IF c.thread_id # None THEN << <<"thread", c.thread_id>> >> ELSE <<>>)
        \o [i \in 1..Len(c.file_ids) |-> <<"file", c.file_ids[i]>>]
        \o (IF c.agent_id # None THEN << <<"agent", c.agent_id>> >> ELSE <<>>)

\* C16: a deletion that fails stops nothing: the release still attempts the
\* deletion of every other recorded resource, the remaining files included,
\* and the runner returns its text as if the deletion had succeeded.
C16_FailedDeletionIsolated ==
    rc.del_failed # {} =>
        /\ rc.pc \in {"cleanup_files", "cleanup_agent", "cleanup_tmp", "returned"}
        /\ ~rc.propagates
        /\ rc.pc = "returned" => rc.deleted = OwedDeletions(rc)

\* the deletions of the thread and of the first file failed, and the second
\* file and the agent were attempted all the same
C16_Witness ==
    /\ rc.pc = "returned"
    /\ {1, 2} \subseteq rc.del_failed
    /\ Len(rc.deleted) = 4
    /\ rc.deleted[3] = <<"file", rc.file_ids[2]>>
    /\ rc.deleted[4] = <<"agent", rc.agent_id>>

\* the upload loop raised after at least one file had been uploaded
UploadFailedPartway(c) ==
    /\ c.raised
    /\ c.tmp_files # <<>>
    /\ Len(c.file_ids) >= 1
    /\ Len(c.file_ids) < Len(c.tmp_files)

\* C17: when the upload fails after j >= 1 files were uploaded, the release
\* attempts the deletion of exactly those j file identifiers, and of no
\* agent, no thread and no identifier that was never acquired.
C17_PartialUploadReleased ==
    UploadFailedPartway(rc) =>
        /\ rc.agent_id = None /\ rc.thread_id = None
        /\ \A i \in 1..Len(rc.deleted) :
              /\ i <= Len(rc.file_ids)
              /\ rc.deleted[i] = <<"file", FileId(rc.model_index, i)>>
        /\ rc.pc = "returned" => Len(rc.deleted) = Len(rc.file_ids)

\* the second upload raised and the release has deleted the first file only
C17_Witness ==
    /\ UploadFailedPartway(rc)
    /\ rc.pc = "returned"
    /\ rc.deleted = << <<"file", rc.file_ids[1]>> >>

(***************************************************************************)
(* The runner seen from its caller (SpecRunner).                           *)
(***************************************************************************)
\* the text a runner returns for an exception it caught
IsFailureText(c, text) ==
    IF c.svc = "comparison"
    THEN startswith(text, "An error occurred during agent processing with model ")
    ELSE startswith(text, ERROR_PREFIX)

\* C18: no exception leaves a runner: whichever of its calls raised, the
\* runner goes through its release and returns a failure text.
C18_RunnerNeverRaises ==
    /\ ~rc.propagates
    /\ rc.raised =>
          /\ rc.pc \in {"cleanup_thread", "cleanup_files", "cleanup_agent",
                        "cleanup_tmp", "returned"}
          /\ IsFailureText(rc, rc.result)

\* the extraction of the results raised after a completed protocol, and the
\* runner has returned its failure text
C18_Witness ==
    /\ rc.pc = "returned"
    /\ rc.raised
    /\ rc.proto = "COMPLETED"
    /\ IsFailureText(rc, rc.result)

(***************************************************************************)
(* The success mapping and the single model mode (Spec).                   *)
(***************************************************************************)
\* the configured position of model name k
ConfiguredPosition(k) ==
    CHOOSE n \in 1..Len(model_deployments) :
        /\ model_deployments[n] = k
        /\ \A m \in 1..(n - 1) : model_deployments[m] # k

\* C19: the success mapping holds no value that starts with 'Error:' and no
\* exception, at most one entry per model name, only configured model names
\* as keys, and its keys come in the configured deployment order.
C19_MappingWellFormed ==
    LET keys == dict_keys(model_outputs)
    IN  /\ \A i \in 1..Len(model_outputs) :
              /\ ~startswith(model_outputs[i][2], ERROR_PREFIX)
              /\ \E n \in 1..Len(model_deployments) :
                    /\ model_deployments[n] = keys[i]
                    /\ results[n].done /\ ~results[n].is_exception
                    /\ results[n].value = model_outputs[i][2]
        /\ \A i, j \in 1..Len(keys) :
              i < j => /\ keys[i] # keys[j]
                       /\ ConfiguredPosition(keys[i]) < ConfiguredPosition(keys[j])

\* of three reorder runners the first returned an 'Error:' text: the mapping
\* holds the second and the third model, in that order
C19_Witness ==
    /\ service = "reorder"
    /\ fo_pc = "judge"
    /\ Len(model_deployments) = 3
    /\ startswith(results[1].value, ERROR_PREFIX)
    /\ dict_keys(model_outputs) = <<model_deployments[2], model_deployments[3]>>

\* the comparison service is configured with exactly one deployment
SingleModel == service = "comparison" /\ Len(model_deployments) = 1

\* C20: with exactly one deployment configured, compare_csv_files executes
\* exactly one runner and returns its output unchanged; it builds no judge
\* prompt and never calls the arbiter.
C20_SingleModelBypass ==
    SingleModel =>
        /\ fo_pc \in {"start", "done"}
        /\ judge = NoJudge
        /\ fo_pc = "done" =>
              /\ Len(results) = 1
              /\ results[1].done
              /\ ret = Returned(results[1].value, <<>>)

\* the single runner found nothing to report and its empty output was
\* returned as it is
C20_Witness ==
    /\ SingleModel
    /\ fo_pc = "done"
    /\ results[1].outcome = "success"
    /\ results[1].value = <<>>
    /\ ret.kind = "value" /\ ret.value = <<>>

(***************************************************************************)
(* The judges and what the orchestrators return (Spec).                    *)
(***************************************************************************)
\* the configured position of the i-th model that succeeded
NthSucceeded(i) ==
    CHOOSE n \in SucceededSet : Cardinality({ m \in SucceededSet : m <= n }) = i

\* C21: the comparison judge numbers its candidates from 1 in the configured
\* order of the models that succeeded; when the arbiter answers the ordinal
\* i of 1..K the i-th successful model's output is returned, and every other
\* answer gives the output of the first successful model.
C21_OrdinalsFollowSuccesses ==
    (service = "comparison" /\ fo_pc = "done" /\ judge.calls = 1) =>
        /\ dict_keys(model_outputs) = [i \in 1..K |-> model_deployments[NthSucceeded(i)]]
        /\ \A i \in 1..K :
              (judge.response[1] = "text" /\ DropZeros(judge.response[2]) = <<OrdinalChars[i]>>)
                  => ret = Returned(results[NthSucceeded(i)].value, <<>>)
        /\ (judge.response[1] # "text" \/ ~IsOrdinal(judge.response[2], K))
              => ret = Returned(results[NthSucceeded(1)].value, <<>>)

\* C22: in the reorder judge prompt, the samples shown under the label of a
\* model are read from the files that the runner of that model saved,
\* whichever models succeeded.
C22_SamplesOfOwnRunner ==
    (service = "reorder" /\ fo_pc \in {"judge", "done"}) =>
        \A i \in 1..Len(judge.candidates) :
            sample_files(judge.candidates[i][2])
                = materialized_files(ConfiguredPosition(judge.candidates[i][1]))

\* C23: what reorder_csv_files returns is a key of the success mapping with
\* exactly that key's entry; what compare_csv_files returns in multi model
\* mode is one entry of the success mapping, whole, or the aggregate failure
\* text.
C23_ReturnsAnEntry ==
    (fo_pc = "done" /\ ret.kind = "value" /\ ~SingleModel) =>
        IF service = "reorder"
        THEN \E i \in 1..Len(model_outputs) :
                ret.model = model_outputs[i][1] /\ ret.value = model_outputs[i][2]
        ELSE \/ ret.value = ALL_FAILED_TEXT
             \/ \E i \in 1..Len(model_outputs) : ret.value = model_outputs[i][2]

\* the comparison arbiter chose the second of two different candidates and
\* its output was returned
C23_Witness ==
    /\ fo_pc = "done"
    /\ service = "comparison"
    /\ judge.response = <<"text", <<"2">>>>
    /\ Len(model_outputs) = 2
    /\ model_outputs[1][2] # model_outputs[2][2]
    /\ ret = Returned(model_outputs[2][2], <<>>)

(***************************************************************************)
(* The order of the steps of one runner execution (SpecRunner).            *)
(***************************************************************************)
\* C24: in the comparison protocol the k-th continuation nudge follows a
\* k-th run that did not fail and whose agent message lacked the sentinel,
\* and k is smaller than the number of attempts allowed; each nudge is
\* followed by one further run, so that the runs outnumber the nudges by
\* exactly one once the protocol has ended.
C24_NudgeDiscipline ==
    rc.svc = "comparison" =>
        /\ \A k \in 1..rc.nudges :
              /\ k < MAX_ATTEMPTS
              /\ rc.runs[k] = "completed"
              /\ ~HasSentinel(rc.msgs[k])
        /\ Len(rc.runs) \in {rc.nudges, rc.nudges + 1}
        /\ rc.pc = "run" => Len(rc.runs) = rc.nudges
        /\ (Terminated(rc) /\ Len(rc.runs) >= 1) => rc.nudges = Len(rc.runs) - 1

\* two nudges and three runs, the last of which ended with the sentinel
C24_Witness ==
    /\ rc.svc = "comparison"
    /\ rc.pc = "returned"
    /\ rc.nudges = 2
    /\ Len(rc.runs) = 3
    /\ rc.proto = "COMPLETED"

\* C25: a reorder runner that reaches its task invokes the remote run once
\* and no more, posts no continuation nudge and reads no agent message to
\* look for the sentinel; a run that did not fail is followed at once by the
\* extraction of the results.
C25_ReorderSingleRun ==
    rc.svc = "reorder" =>
        /\ Len(rc.runs) <= 1
        /\ rc.nudges = 0
        /\ rc.msgs = <<>>
        /\ rc.pc \notin {"get_message", "nudge"}
        /\ (rc.proto # "NOT_STARTED" /\ rc.pc # "run") => Len(rc.runs) = 1
        /\ rc.extracts <= 1
        /\ rc.extracts = 1 => rc.runs = <<"completed">>
        /\ (rc.runs = <<"completed">>) => (rc.pc = "extract" \/ rc.extracts = 1)

\* a reorder runner returned what it extracted after its only run
C25_Witness ==
    /\ rc.svc = "reorder"
    /\ rc.pc = "returned"
    /\ rc.runs = <<"completed">>
    /\ rc.extracts = 1
    /\ rc.parts >= 1

\* what a runner has acquired or done on the remote service and on disk
Acquired(c) ==
    <<c.copied, c.tmp_files, c.file_ids, c.agent_id, c.agent_files, c.thread_id,
      c.proto, c.runs, c.msgs, c.nudges, c.extracts>>

\* C26: a runner uploads only what it has copied, creates its agent only
\* when every copied file is uploaded and scopes the agent's code execution
\* tool to exactly the file ids of this execution, creates the thread after
\* the agent, posts the task after the thread and runs after the task; once
\* the release has begun no other step is taken.
C26_StepOrder ==
    /\ [](/\ rc.file_ids # <<>> => (rc.tmp_files = tmp_paths(rc) /\ rc.copied = rc.tmp_files)
          /\ \A i \in 1..Len(rc.file_ids) : rc.file_ids[i] = FileId(rc.model_index, i)
          /\ rc.agent_id # None =>
                /\ Len(rc.file_ids) = Len(rc.tmp_files)
                /\ rc.file_ids # <<>>
                /\ rc.agent_files = rc.file_ids
          /\ rc.thread_id # None => rc.agent_id # None
          /\ rc.proto # "NOT_STARTED" => rc.thread_id # None
          /\ rc.runs # <<>> => rc.proto # "NOT_STARTED"
          /\ (rc.deleted # <<>> \/ rc.removed # <<>>) => Terminated(rc))
    /\ [][Terminated(rc) => (Terminated(rc') /\ Acquired(rc') = Acquired(rc))]_vars

\* a runner went through every step: two uploads, an agent scoped to them,
\* a thread, the task, a run, and a release that deleted all four resources
C26_Witness ==
    /\ rc.pc = "returned"
    /\ Len(rc.file_ids) = 2
    /\ rc.agent_files = rc.file_ids
    /\ rc.thread_id # None
    /\ rc.runs # <<>>
    /\ Len(rc.deleted) = 4
    /\ rc.removed = rc.tmp_files

\* C27: when a runner returns, every local temporary file its preparation
\* step created has been removed, also when a later copy failed after an
\* earlier one was made.
C27_TempFilesRemoved ==
    rc.pc = "returned" => Range(rc.copied) \subseteq Range(rc.removed)


\* C28: an execution works on the context it created and on no other: every
\* identifier in the context of an execution was acquired by that execution,
\* and every deletion an execution attempts is of an identifier it acquired
\* itself, however the steps of the executions interleave.
OwnIds(r) ==
    LET c == execs.ctx[r]
    IN  /\ \A i \in 1..Len(c.file_ids) : c.file_ids[i][1] = r
        /\ c.agent_id # None => c.agent_id[1] = r
        /\ c.thread_id # None => c.thread_id[1] = r

C28_OwnContextOnly ==
    execs # NoExecs =>
        /\ \A r \in {1, 2} : OwnIds(r)
        /\ \A a \in execs.attempts : a[3][1] = a[1]

\* both executions, of the same configured model, have acquired files, agent
\* and thread, and both have released them
C28_Witness ==
    /\ execs # NoExecs
    /\ execs.pc = <<"returned", "returned">>
    /\ execs.ctx[1].model_index = execs.ctx[2].model_index
    /\ \A r \in {1, 2} : \A kind \in {"thread", "file", "agent"} :
           \E a \in execs.attempts : a[1] = r /\ a[2] = kind
    /\ Cardinality(execs.attempts) = 8


(***************************************************************************)
(* Properties of the server's initialization (SpecServer).                 *)
(***************************************************************************)
HandlesOf(s) ==
    << s.openai_service, s.csv_comparison_service, s.code_generation_tool,
       s.rowlevel_analyzer_tool, s.order_consistency_tool, s.refine_python_code_tool >>

\* C29: when initialize has returned False, at whichever step it failed,
\* every service and tool handle of the server is None; when it has returned
\* True every one of them is set; and it always returns one of the two,
\* never raising.
C29_InitializeAllOrNothing ==
    server # NoServer /\ server.pc = "done" =>
        /\ server.ret \in {TRUE, FALSE}
        /\ server.ret = FALSE => \A i \in 1..Len(HandleNames) : HandlesOf(server)[i] = None
        /\ server.ret = TRUE => \A i \in 1..Len(HandleNames) : HandlesOf(server)[i] # None

\* initialize returned False after all six handles were set and one tool was
\* registered, the second registration failing
C29_Witness ==
    /\ server # NoServer
    /\ server.pc = "done"
    /\ server.ret = FALSE
    /\ server.failed_at = "register_2"


(***************************************************************************)
(* Properties of the code generation tool's cache (SpecTool).              *)
(***************************************************************************)
IsErrorResult(result) == dict_has(result, "error")

\* C30: the cache, started empty, never holds an error result (a dict with
\* the key "error") after any sequence of code_bootstrap_agent calls; and a
\* call with a directory that does not exist returns an error dict, reports
\* it through ctx.error, makes no model call and leaves the cache unchanged.
C30_NoErrorCached ==
    tool # NoTool =>
        /\ \A i \in 1..Len(tool.cache) : ~IsErrorResult(tool.cache[i][2])
        /\ tool.last.input_dir # "" /\ tool.last.dir_kind = "absent" =>
               /\ IsErrorResult(tool.last.result)
               /\ tool.last.errors > 0
               /\ tool.last.model_calls = 0
               /\ tool.cache = tool.last.cache_before

\* C30 (amended): the cache, started empty, never holds an error result after
\* any sequence of code_bootstrap_agent calls; and a call with a directory
\* that does not exist, for whose key the cache holds no result, returns an
\* error dict, reports it through ctx.error, makes no model call and leaves
\* the cache unchanged.
C30_NoErrorCachedOnMiss ==
    tool # NoTool =>
        /\ \A i \in 1..Len(tool.cache) : ~IsErrorResult(tool.cache[i][2])
        /\ ( /\ tool.last.input_dir # ""
             /\ tool.last.dir_kind = "absent"
             /\ ~dict_has(tool.last.cache_before, cache_key(tool.last.input_dir)) ) =>
               /\ IsErrorResult(tool.last.result)
               /\ tool.last.errors > 0
               /\ tool.last.model_calls = 0
               /\ tool.cache = tool.last.cache_before

\* a call with an absent directory missed a cache that holds a result for
\* the other directory, and returned the error dict
C30_Witness ==
    /\ tool # NoTool
    /\ tool.last.dir_kind = "absent"
    /\ ~tool.last.hit
    /\ IsErrorResult(tool.last.result)
    /\ Len(tool.cache) = 1


\* the call last made found its key in the cache
WasCached == dict_has(tool.last.cache_before, cache_key(tool.last.input_dir))

\* C31: once a non-error result is cached for a key, every later call with
\* the same keyword arguments returns that result without running the tool
\* body (nothing reported, no model call, cache as it was), whatever the
\* directory holds by then, the empty-directory response included; an entry
\* of the cache is never replaced; and a call whose result was an error
\* leaves no entry, so the next call with that key runs the body again.
C31_CachedResultReturned ==
    /\ [](tool # NoTool /\ tool.last.input_dir # "" =>
            /\ WasCached =>
                   /\ tool.last.result =
                          dict_get(tool.last.cache_before, cache_key(tool.last.input_dir))
                   /\ tool.last.hit
                   /\ tool.last.model_calls = 0 /\ tool.last.errors = 0
                   /\ tool.cache = tool.last.cache_before
            /\ ~WasCached => ~tool.last.hit
            /\ IsErrorResult(tool.last.result) =>
                   ~dict_has(tool.cache, cache_key(tool.last.input_dir)))
    /\ [][tool # NoTool =>
            \A i \in 1..Len(tool.cache) :
                /\ dict_has(tool'.cache, tool.cache[i][1])
                /\ dict_get(tool'.cache, tool.cache[i][1]) = tool.cache[i][2]]_vars

\* the empty-directory response is returned from the cache for a directory
\* that holds files by now
C31_Witness ==
    /\ tool # NoTool
    /\ tool.last.hit
    /\ tool.last.result = build_empty_response
    /\ tool.last.dir_kind = "files"


(***************************************************************************)
(* Properties of the extraction step (SpecRunner).                         *)
(***************************************************************************)
\* where the content of the k-th listed attachment stands in the text
PositionOf(text, x) == CHOOSE i \in 1..Len(text) : text[i] = x

\* C32: the comparison runner lists the messages and downloads attachments
\* only once the protocol has reached COMPLETED, never after a failed run or
\* after the attempts ran out; and the text it returns holds the extracted
\* parts, each once, in the order in which they were listed.
C32_ExtractOnlyWhenCompleted ==
    /\ [](rc.svc = "comparison" =>
            /\ rc.pc = "extract" \/ rc.extracts > 0 => rc.proto = "COMPLETED"
            /\ rc.proto \in {"RUN_FAILED", "MAX_ATTEMPTS_EXHAUSTED"} => rc.extracts = 0
            /\ rc.extracts <= 1
            /\ Terminated(rc) /\ rc.extracts = 1 /\ ~rc.raised =>
                   /\ Len(rc.result) = 5 * rc.parts
                   /\ \A k \in 1..rc.parts : contains(rc.result, csv_content(rc.model_index, k))
                   /\ \A k, j \in 1..rc.parts :
                          k < j => PositionOf(rc.result, csv_content(rc.model_index, k))
                                     < PositionOf(rc.result, csv_content(rc.model_index, j)))
    /\ [][rc.svc = "comparison" /\ rc'.extracts > rc.extracts =>
            rc.proto = "COMPLETED" /\ rc.runs[Len(rc.runs)] = "completed"
                /\ HasSentinel(rc.msgs[Len(rc.msgs)])]_vars

\* the comparison runner completed at its last attempt and returned two parts
C32_Witness ==
    /\ rc.svc = "comparison"
    /\ rc.pc = "returned"
    /\ rc.attempt = MAX_ATTEMPTS
    /\ rc.extracts = 1 /\ rc.parts = 2 /\ ~rc.raised


(***************************************************************************)
(* Properties of the row-level analyzer over the comparison path (Spec).   *)
(***************************************************************************)
\* what compare_csv_files handed back is a failure outcome: an exception, the
\* aggregate failure, or the text of a runner that ended in an exception, a
\* failed run or retry exhaustion
FailureHandedBack ==
    \/ ret.kind = "raise"
    \/ ret.value = ALL_FAILED_TEXT
    \/ \E i \in 1..Len(results) : ~Succeeded(i) /\ results[i].value = ret.value

\* C33: every failure outcome of the comparison path reaches the caller of
\* rowlevel_analyzer_agent as an error dict, never as an analysis text, and
\* the analysis text of a success is handed on as it is, never as an error
\* dict.
C33_FailuresBecomeErrorDicts ==
    service = "comparison" /\ fo_pc = "done" =>
        LET out == rowlevel_analyzer_agent(ret)
        IN  /\ FailureHandedBack => out.is_dict /\ dict_has(out.value, "error")
            /\ ~FailureHandedBack => out = AnalysisText(ret.value)


(***************************************************************************)
(* Properties of the target directory of a reorder invocation (Spec).      *)
(***************************************************************************)
\* the names under which runner i of this invocation saved its attachments
SavedBy(i) ==
    { <<"model_", ToString(i), "_", OutputNames[k], ".csv">> : k \in 1..results[i].files }

\* reorder_csv_files has returned a content and the model it names
ReorderReturned == service = "reorder" /\ fo_pc = "done" /\ ret.kind = "value"

\* C34: when reorder_csv_files returns with winner W, the target directory
\* holds the files W's runner saved under their names without the
\* 'model_<index>_' prefix, and no file with the 'model_<index>_' prefix of any
\* configured model, whether one model succeeded, the judge named a model or
\* the fallback was taken.
C34_WinnerFilesUnprefixed ==
    ReorderReturned =>
        LET w == ConfiguredPosition(ret.model)
        IN  /\ \A name \in SavedBy(w) :
                   File(strip_model_prefix(name), <<"runner", w>>) \in disk
            /\ \A f \in disk : \A j \in 1..Len(model_deployments) :
                   ~has_model_prefix(f.name, j)

\* C35: on every path out of _select_best_reordering the files that the
\* runner of the returned winner saved are still in the directory, under
\* their prefixed or their final names, also when the file handling for a
\* validly selected model failed part-way and the first model is returned.
C35_WinnerFilesExist ==
    ReorderReturned =>
        LET w == ConfiguredPosition(ret.model)
        IN  \A name \in SavedBy(w) :
                \/ File(name, <<"runner", w>>) \in disk
                \/ File(strip_model_prefix(name), <<"runner", w>>) \in disk

\* C36: the cleanup after the selection removes or renames only files that
\* runners of this invocation saved: a file that was in the directory before,
\* or that another invocation in flight saved, is there unchanged afterwards.
C36_CleanupTouchesOwnFilesOnly ==
    [][service = "reorder" /\ fo_pc = "judge" =>
          \A f \in disk : f.origin \in {<<"before">>, <<"other">>} => f \in disk']_vars


(***************************************************************************)
(* Two executions for the same model: they belong to two invocations, as   *)
(* one fan-out starts one runner for each configured position.             *)
(***************************************************************************)
\* the temp files execution q has copied and not yet uploaded
AwaitingUpload(q) ==
    IF execs.pc[q] = "upload"
    THEN { execs.ctx[context_slot(q)].tmp_files[k] :
               k \in (Len(execs.ctx[context_slot(q)].file_ids) + 1)
                         ..Len(execs.ctx[context_slot(q)].tmp_files) }
    ELSE {}

\* execution r takes the step that removes its temp files
RemovesTempFiles(r) == execs.pc[r] = "cleanup_tmp" /\ execs.pc'[r] # "cleanup_tmp"

InvocationOver(k) == pool.invs[k].pc = "done"

\* the executor has nothing queued and nothing running
ExecutorIdle == pool.queue = <<>> /\ pool.running = {}

\* C38: when every remote call and every arbiter call returns or raises,
\* every invocation of compare_csv_files and reorder_csv_files returns or
\* raises in the end and no runner waits for a worker for ever, also when
\* several invocations share the executor: again and again a state is
\* reached in which every invocation made so far is over and the executor
\* is idle.
C38_InvocationsTerminate ==
    []<>(ExecutorIdle /\ \A k \in 1..Len(pool.invs) : InvocationOver(k))

\* Two invocations that shared the executor, one of them having had to wait
\* for a worker, are both over.
C38_Witness ==
    /\ Len(pool.invs) >= 2
    /\ pool.submitted > max_workers(model_deployments)
    /\ \A k \in 1..Len(pool.invs) : InvocationOver(k)
    /\ ExecutorIdle

\* C39: a comparison runner that completed and read no attachment returns
\* the empty text, and the orchestrator keeps it in its mapping of successful
\* outputs; a reorder runner that completed and read no attachment returns a
\* text that starts with "Error:", and its model is not in the mapping.
C39_EmptyOutputKeptOrExcluded ==
    MappingBuilt =>
        \A i \in 1..Len(model_deployments) :
            /\ ( /\ service = "comparison"
                 /\ results[i].outcome = "success"
                 /\ results[i].parts = 0 )
               => /\ results[i].value = <<>>
                  /\ dict_has(model_outputs, model_deployments[i])
                  /\ dict_get(model_outputs, model_deployments[i]) = <<>>
            /\ ( /\ service = "reorder"
                 /\ results[i].outcome = "no_output" )
               => /\ startswith(results[i].value, ERROR_PREFIX)
                  /\ ~dict_has(model_outputs, model_deployments[i])

\* A comparison whose mapping holds an empty output beside a real one.
C39_Witness ==
    /\ MappingBuilt
    /\ service = "comparison"
    /\ \E i, j \in 1..Len(model_deployments) :
          /\ results[i].outcome = "success" /\ results[i].parts = 0
          /\ results[j].outcome = "success" /\ results[j].parts > 0
          /\ dict_get(model_outputs, model_deployments[i]) = <<>>

====
